---- MODULE Spec2Model ----
(***************************************************************************)
(* Cortex: per-project memory engine.  Event model, file and SQL event     *)
(* stores, snapshot cache, briefing composition, hook handlers, transcript *)
(* resumption and tier migration, modelled from src/src/cortex and         *)
(* src/src/memory_context_claude_ai.                                       *)
(*                                                                         *)
(* Strings are TLA+ strings (Len, \o and SubSeq act on them).  Time is a   *)
(* logical clock counted in hours.  A UUID is a fresh natural number.      *)
(* SHA-256 is taken to be collision-free: a content hash is represented by *)
(* the string that is hashed.                                              *)
(***************************************************************************)
EXTENDS Integers, Sequences, FiniteSets, TLC

VARIABLES
  config,        \* the CortexConfig that load_config() returns
  events_json,   \* <project dir>/events.json
  state_json,    \* <project dir>/state.json
  events_db,     \* <project dir>/events.db
  backups,       \* <project dir>/backups/tier0_<ts>/
  archive,       \* <project dir>/archive/
  transcript,    \* what the host has written to the transcript file, write by write
  briefing_md,   \* <cwd>/.claude/rules/cortex-briefing.md
  context_md,    \* <cwd>/.claude/rules/cortex-relevant-context.md
  now,           \* the clock, in hours
  next_id,       \* the next fresh event id
  constructed,   \* history: how each event id was constructed
  last,          \* history: the last operation, its inputs and its result
  invocations,   \* the append_many calls in flight on events.db, one per process
  open_file      \* the write_text call in flight on a file of the host

vars == <<config, events_json, state_json, events_db, backups, archive,
          transcript, briefing_md, context_md, now, next_id, constructed, last, invocations, open_file>>

\* ------------------------------------------------------------------ bounds

\* Events constructed in one behaviour of the store specification.
MaxEvents == 2

\* ------------------------------------------------------------- event model

EventType ==
  {"decision_made", "approach_rejected", "plan_created", "plan_step_completed",
   "knowledge_acquired", "error_resolved", "preference_noted", "task_completed",
   "file_modified", "file_explored", "command_run"}

IMMORTAL_TYPES == {"decision_made", "approach_rejected"}

\* DEFAULT_SALIENCE, in hundredths.
DEFAULT_SALIENCE ==
  [t \in EventType |->
     CASE t \in {"decision_made", "approach_rejected"} -> 90
       [] t = "plan_created" -> 85
       [] t = "preference_noted" -> 80
       [] t = "error_resolved" -> 75
       [] t \in {"plan_step_completed", "knowledge_acquired"} -> 70
       [] t = "task_completed" -> 60
       [] t = "file_modified" -> 40
       [] t = "file_explored" -> 30
       [] OTHER -> 20]

\* Event(...): the dataclass constructor stores every field as given; the
\* immortal flag is a plain field.
Event(id, session_id, git_branch, type, content, salience, created_at, accessed_at, access_count, immortal) ==
  [id |-> id, session_id |-> session_id, git_branch |-> git_branch,
   type |-> type, content |-> content, salience |-> salience, created_at |-> created_at,
   accessed_at |-> accessed_at, access_count |-> access_count,
   immortal |-> immortal]

create_event_flagless(id, event_type, content, session_id, git_branch, t) ==
  Event(id, session_id, git_branch, event_type, content, DEFAULT_SALIENCE[event_type], t, t, 0, FALSE)

\* create_event: the factory; id is the fresh UUID and t is "now".
create_event(id, event_type, content, session_id, git_branch, t) ==
  Event(id, session_id, git_branch, event_type, content, DEFAULT_SALIENCE[event_type], t, t, 0,
        event_type \in IMMORTAL_TYPES)

\* content_hash: sha256(type:content:session_id)[:16], represented by the
\* hashed string.
content_hash(event) ==
  event.type \o ":" \o event.content \o ":" \o event.session_id

\* Event.to_dict: the JSON object written to events.json.
to_dict(e) ==
  [id |-> e.id, session_id |-> e.session_id, git_branch |-> e.git_branch,
   type |-> e.type, content |-> e.content, salience |-> e.salience, created_at |-> e.created_at,
   accessed_at |-> e.accessed_at, access_count |-> e.access_count,
   immortal |-> e.immortal]

\* dict.get(key, default)
Get(d, key, default) == IF key \in DOMAIN d THEN d[key] ELSE default

\* Event.from_dict: every missing key takes its default; immortal defaults
\* to False whatever the type.
from_dict(d) ==
  Event(Get(d, "id", 0), Get(d, "session_id", ""), Get(d, "git_branch", ""),
        Get(d, "type", "knowledge_acquired"), Get(d, "content", ""),
        Get(d, "salience", 50), Get(d, "created_at", 0), Get(d, "accessed_at", 0),
        Get(d, "access_count", 0), Get(d, "immortal", FALSE))

\* ------------------------------------------------------------ sequences

Range(s) == {s[i] : i \in 1..Len(s)}

Hashes(events) == {content_hash(e) : e \in Range(events)}

\* The loop of append_many without the update of existing_hashes: an event
\* is compared with the stored hashes only.
RECURSIVE NewEventsStoreOnly(_, _)
NewEventsStoreOnly(existing_hashes, events) ==
  IF events = <<>> THEN <<>>
  ELSE IF content_hash(Head(events)) \in existing_hashes
       THEN NewEventsStoreOnly(existing_hashes, Tail(events))
       ELSE <<Head(events)>> \o NewEventsStoreOnly(existing_hashes, Tail(events))

\* The loop of append_many (both stores): keep an event when its hash is
\* neither stored nor seen earlier in the batch.
RECURSIVE NewEvents(_, _)
NewEvents(existing_hashes, events) ==
  IF events = <<>> THEN <<>>
  ELSE LET h == content_hash(Head(events)) IN
       IF h \in existing_hashes
       THEN NewEvents(existing_hashes, Tail(events))
       ELSE <<Head(events)>> \o NewEvents(existing_hashes \cup {h}, Tail(events))

\* ------------------------------------------------------- file store (tier 0)

NoFile == [exists |-> FALSE, data |-> <<>>]

\* EventStore._load_raw: a missing file reads as the empty list.
load_raw(file) == IF file.exists THEN file.data ELSE <<>>

\* EventStore._save_raw: temp file and rename.
save_raw(events) == [exists |-> TRUE, data |-> events]

\* EventStore.load_all
EventStore_load_all(file) ==
  LET raw == load_raw(file) IN [i \in 1..Len(raw) |-> from_dict(raw[i])]

\* EventStore.append: no hash is consulted.
EventStore_append(file, event) ==
  save_raw(Append(load_raw(file), to_dict(event)))

\* append_many without the comparison of hashes: every event is written.
EventStore_extend(file, events) ==
  IF events = <<>> THEN file ELSE save_raw(load_raw(file) \o [i \in 1..Len(events) |-> to_dict(events[i])])

\* EventStore.append_many
EventStore_append_many(file, events) ==
  IF events = <<>> THEN file
  ELSE LET existing == load_raw(file)
           existing_hashes == {content_hash(from_dict(d)) : d \in Range(existing)}
           new_events == NewEvents(existing_hashes, events)
           new_dicts == [i \in 1..Len(new_events) |-> to_dict(new_events[i])]
       IN IF new_events # <<>> THEN save_raw(existing \o new_dicts) ELSE file

\* EventStore.load_immortal
EventStore_load_immortal(file) ==
  SelectSeq(EventStore_load_all(file), LAMBDA e : e.immortal)

\* EventStore.mark_accessed: the ids are made a set; every entry whose id is
\* in it gets accessed_at = now and one more access; the file is written
\* only when an entry was modified.
EventStore_mark_accessed(file, event_ids, t) ==
  IF event_ids = <<>> THEN file
  ELSE LET id_set == Range(event_ids)
           raw == load_raw(file)
       IN IF \E i \in 1..Len(raw) : Get(raw[i], "id", 0) \in id_set
          THEN save_raw([i \in 1..Len(raw) |->
                           IF Get(raw[i], "id", 0) \in id_set
                           THEN [raw[i] EXCEPT !.accessed_at = t,
                                               !.access_count = Get(raw[i], "access_count", 0) + 1]
                           ELSE raw[i]])
          ELSE file

\* ------------------------------------------------------ SQL store (tier 1)

SCHEMA_VERSION == 2

\* No state.json file; the fields are the defaults of HookState.load, -1
\* standing for the empty last_extraction_time.
NoState ==
  [exists |-> FALSE, last_transcript_position |-> 0, last_transcript_path |-> "", last_session_id |-> "",
   session_count |-> 0, last_extraction_time |-> -1]

\* No events.db file.  versions is the schema_version table, has_embedding
\* tells whether the events table has its embedding column, embedded holds
\* the ids of the events whose embedding is not NULL, hook_state is the
\* hook_state table.
NoDb ==
  [exists |-> FALSE, versions |-> {}, has_embedding |-> FALSE, events |-> <<>>, snapshots |-> {},
   embedded |-> {}, hook_state |-> NoState]

\* get_schema_version: MAX(version), 0 when there is none.
get_schema_version(db) ==
  IF db.versions = {} THEN 0
  ELSE CHOOSE v \in db.versions : \A w \in db.versions : w <= v

\* _migrate_v1_to_v2
migrate_v1_to_v2(db) ==
  IF db.has_embedding THEN db
  ELSE [db EXCEPT !.has_embedding = TRUE, !.versions = @ \cup {2}]

\* _run_migrations
run_migrations(db) ==
  IF get_schema_version(db) < 2 THEN migrate_v1_to_v2(db) ELSE db

\* _record_schema_version
record_schema_version(db) ==
  IF SCHEMA_VERSION \in db.versions THEN db
  ELSE [db EXCEPT !.versions = @ \cup {SCHEMA_VERSION}]

\* connect + initialize_schema, what SQLiteEventStore._get_conn does on the
\* first use of a store object: sqlite3.connect creates a missing file, the
\* CREATE ... IF NOT EXISTS script creates missing tables (the events table
\* with its embedding column), then migrations and the version row.
get_conn(db) ==
  LET created == IF db.exists THEN db ELSE [NoDb EXCEPT !.exists = TRUE, !.has_embedding = TRUE]
  IN record_schema_version(run_migrations(created))

\* _insert_event: the immortal flag is stored as an integer.
insert_event(e) ==
  [id |-> e.id, session_id |-> e.session_id, git_branch |-> e.git_branch,
   type |-> e.type, content |-> e.content, salience |-> e.salience, created_at |-> e.created_at,
   accessed_at |-> e.accessed_at, access_count |-> e.access_count,
   immortal |-> IF e.immortal THEN 1 ELSE 0]

\* _row_to_event: bool(row["immortal"]).
row_to_event(row) ==
  Event(row.id, row.session_id, row.git_branch, row.type, row.content, row.salience,
        row.created_at, row.accessed_at, row.access_count, row.immortal # 0)

\* SQLiteEventStore.load_all: the events of the database as it is after the
\* connection has been opened.
SQLiteEventStore_load_all(db) ==
  LET rows == get_conn(db).events IN [i \in 1..Len(rows) |-> row_to_event(rows[i])]

\* SQLiteEventStore._load_content_hashes
load_content_hashes(db) == Hashes(SQLiteEventStore_load_all(db))

\* SQLiteEventStore.append: insert and commit; the snapshots table is not
\* touched.
SQLiteEventStore_append(db, event) ==
  [get_conn(db) EXCEPT !.events = Append(@, insert_event(event))]

\* append_many without the comparison of hashes: every event is inserted.
SQLiteEventStore_insert_many(db, events) ==
  IF events = <<>> THEN db
  ELSE [get_conn(db) EXCEPT !.events = @ \o [i \in 1..Len(events) |-> insert_event(events[i])]]

\* SQLiteEventStore.append_many: insert the events with a new hash and
\* commit; the snapshots table is not touched.
SQLiteEventStore_append_many(db, events) ==
  IF events = <<>> THEN db
  ELSE LET conn == get_conn(db)
           new_events == NewEvents(load_content_hashes(db), events)
           rows == [i \in 1..Len(new_events) |-> insert_event(new_events[i])]
       IN [conn EXCEPT !.events = @ \o rows]

\* SQLiteEventStore.load_immortal
SQLiteEventStore_load_immortal(db) ==
  SelectSeq(SQLiteEventStore_load_all(db), LAMBDA e : e.immortal)

\* UPDATE events SET accessed_at = ?, access_count = access_count + 1
\* WHERE id = ?
update_access(rows, event_id, t) ==
  [i \in 1..Len(rows) |->
     IF rows[i].id = event_id
     THEN [rows[i] EXCEPT !.accessed_at = t, !.access_count = @ + 1]
     ELSE rows[i]]

\* SQLiteEventStore.mark_accessed: one UPDATE for every element of the list,
\* then the commit.
RECURSIVE SQLiteEventStore_mark_accessed(_, _, _)
SQLiteEventStore_mark_accessed(db, event_ids, t) ==
  IF event_ids = <<>> THEN db
  ELSE LET conn == get_conn(db)
       IN SQLiteEventStore_mark_accessed([conn EXCEPT !.events = update_access(@, Head(event_ids), t)],
                                         Tail(event_ids), t)

\* ------------------------------------------------------ briefing selection

RECURSIVE Pow(_, _)
Pow(b, n) == IF n = 0 THEN 1 ELSE b * Pow(b, n - 1)

Min(a, b) == IF a <= b THEN a ELSE b

\* hours_elapsed of effective_salience: max(0, now - accessed_at); an immortal
\* event does not decay.
hours_elapsed(e, t) ==
  IF e.immortal THEN 0 ELSE IF t - e.accessed_at > 0 THEN t - e.accessed_at ELSE 0

\* effective_salience(y) >= effective_salience(x) at time t, where
\* effective_salience = salience * 0.995 ^ hours_elapsed and 0.995 = 199/200;
\* the common factor of the two sides is cancelled.
SalienceGE(y, x, t) ==
  LET hy == hours_elapsed(y, t)
      hx == hours_elapsed(x, t)
      m == Min(hy, hx)
  IN y.salience * Pow(199, hy - m) * Pow(200, hx - m)
       >= x.salience * Pow(199, hx - m) * Pow(200, hy - m)

\* Whether y stays before x in sorted(...): the sorts are stable, also with
\* reverse=True.
Precedes(mode, y, x, t) ==
  CASE mode = "created_desc" -> y.created_at >= x.created_at
    [] mode = "created_asc" -> y.created_at <= x.created_at
    [] OTHER -> SalienceGE(y, x, t)

\* sorted(events, key=..., reverse=...) and list.sort.
RECURSIVE Sorted(_, _, _)
Sorted(mode, events, t) ==
  IF events = <<>> THEN <<>>
  ELSE LET n == Len(events)
           front == Sorted(mode, SubSeq(events, 1, n - 1), t)
           k == Cardinality({i \in 1..Len(front) : Precedes(mode, front[i], events[n], t)})
       IN SubSeq(front, 1, k) \o <<events[n]>> \o SubSeq(front, k + 1, Len(front))

\* load_for_briefing without included_ids: the recent bucket is taken from
\* all the events.
briefing_sections_unfiltered(all_events, t) ==
  LET immortal == Sorted("created_desc", SelectSeq(all_events, LAMBDA e : e.immortal), t)
      plan_events == Sorted("created_desc", SelectSeq(all_events, LAMBDA e : e.type = "plan_created"), t)
      remaining == Sorted("salience_desc", all_events, t)
  IN [immortal |-> immortal,
      active_plan |-> IF plan_events = <<>> THEN <<>> ELSE <<plan_events[1]>>,
      recent |-> SubSeq(remaining, 1, Min(30, Len(remaining)))]

\* The body of load_for_briefing, the same in both stores, from the events
\* that pass the branch filter.
briefing_sections(all_events, t) ==
  LET immortal == Sorted("created_desc", SelectSeq(all_events, LAMBDA e : e.immortal), t)
      plan_events == Sorted("created_desc", SelectSeq(all_events, LAMBDA e : e.type = "plan_created"), t)
      completed_steps ==
        SelectSeq(all_events, LAMBDA e : e.type = "plan_step_completed" /\ e.created_at >= plan_events[1].created_at)
      active_plan ==
        IF plan_events = <<>> THEN <<>>
        ELSE <<plan_events[1]>> \o Sorted("created_asc", completed_steps, t)
      included_ids == {e.id : e \in Range(immortal)} \cup {e.id : e \in Range(active_plan)}
      remaining == Sorted("salience_desc", SelectSeq(all_events, LAMBDA e : e.id \notin included_ids), t)
  IN [immortal |-> immortal, active_plan |-> active_plan,
      recent |-> SubSeq(remaining, 1, Min(30, Len(remaining)))]

\* The branch filter of load_for_briefing; no branch (None or "") keeps all.
branch_filter(all_events, branch) ==
  IF branch # "" THEN SelectSeq(all_events, LAMBDA e : e.git_branch = branch \/ e.git_branch = "")
  ELSE all_events

\* load_for_briefing without the branch filter.
EventStore_load_for_briefing_all_branches(file, branch, t) ==
  briefing_sections(EventStore_load_all(file), t)

\* EventStore.load_for_briefing
EventStore_load_for_briefing(file, branch, t) ==
  briefing_sections(branch_filter(EventStore_load_all(file), branch), t)

\* SQLiteEventStore.load_for_briefing
SQLiteEventStore_load_for_briefing(db, branch, t) ==
  briefing_sections(branch_filter(SQLiteEventStore_load_all(db), branch), t)

\* ------------------------------------------------------------- snapshots

DEFAULT_SNAPSHOT_TTL_HOURS == 1

\* save_snapshot: replace the snapshot of the branch.
save_snapshot(db, branch, markdown, event_ids, last_event_id, t, ttl_hours) ==
  [db EXCEPT !.snapshots =
     {s \in @ : s.git_branch # branch}
       \cup {[git_branch |-> branch, briefing_markdown |-> markdown, event_ids |-> event_ids,
              last_event_id |-> last_event_id, created_at |-> t, expires_at |-> t + ttl_hours]}]

\* get_valid_snapshot: the latest unexpired snapshot of the branch, as a set
\* that is empty when there is none.
get_valid_snapshot(db, branch, t) ==
  LET valid == {s \in db.snapshots : s.git_branch = branch /\ s.expires_at > t}
  IN {s \in valid : \A r \in valid : r.created_at <= s.created_at}

\* invalidate_snapshots(conn, branch) with a branch; no store operation
\* calls it.
invalidate_snapshots(db, branch) ==
  [db EXCEPT !.snapshots = {s \in @ : ~(s.git_branch = branch \/ s.git_branch = "")}]

\* -------------------------------------------------------------- briefing

CHARS_PER_TOKEN == 4

IsSpace(c) == c \in {" ", "\n", "\t"}

RECURSIVE lstrip(_)
lstrip(s) ==
  IF Len(s) > 0 /\ IsSpace(SubSeq(s, 1, 1)) THEN lstrip(SubSeq(s, 2, Len(s))) ELSE s

RECURSIVE rstrip(_)
rstrip(s) ==
  IF Len(s) > 0 /\ IsSpace(SubSeq(s, Len(s), Len(s))) THEN rstrip(SubSeq(s, 1, Len(s) - 1)) ELSE s

\* str.strip()
strip(s) == lstrip(rstrip(s))

\* s.split("\n")[0]
RECURSIVE first_line(_)
first_line(s) ==
  IF Len(s) = 0 \/ SubSeq(s, 1, 1) = "\n" THEN ""
  ELSE SubSeq(s, 1, 1) \o first_line(SubSeq(s, 2, Len(s)))

\* _format_event_line
format_event_line(event, full) ==
  IF full \/ event.content = ""
  THEN "- " \o (IF strip(event.content) = "" THEN "(no content)" ELSE strip(event.content)) \o "\n"
  ELSE LET raw == strip(event.content)
           line == first_line(raw)
           shown == IF raw = "" THEN "(no content)" ELSE SubSeq(line, 1, Min(80, Len(line)))
       IN "- " \o shown \o (IF Len(line) > 80 THEN "..." ELSE "") \o "\n"

\* The add() calls of _render_briefing in their order: the first piece that
\* does not fit ends the briefing.
RECURSIVE add_all(_, _, _)
add_all(pieces, used, max_chars) ==
  IF pieces = <<>> THEN ""
  ELSE IF used + Len(Head(pieces)) > max_chars THEN ""
  ELSE Head(pieces) \o add_all(Tail(pieces), used + Len(Head(pieces)), max_chars)

\* _render_briefing with the sections in another order: the active plan
\* comes first.
render_briefing_plan_first(immortal, active_plan, recent, max_chars, max_full, max_summary) ==
  LET decisions ==
        IF immortal # <<>>
        THEN <<"# Decisions & Rejections\n\n">>
               \o [i \in 1..Min(max_full, Len(immortal)) |-> format_event_line(immortal[i], TRUE)]
               \o <<"\n">>
        ELSE <<>>
      plan ==
        IF active_plan # <<>>
        THEN <<"## Active Plan\n\n">>
               \o [i \in 1..Len(active_plan) |-> format_event_line(active_plan[i], TRUE)]
               \o <<"\n">>
        ELSE <<>>
  IN add_all(plan \o decisions, 0, max_chars)

\* _render_briefing
render_briefing(immortal, active_plan, recent, max_chars, max_full, max_summary) ==
  LET full_immortal == SubSeq(immortal, 1, Min(max_full, Len(immortal)))
      summary_immortal ==
        IF max_summary # 0
        THEN SubSeq(immortal, max_full + 1, Min(max_full + max_summary, Len(immortal)))
        ELSE <<>>
      decisions ==
        IF full_immortal # <<>> \/ summary_immortal # <<>>
        THEN <<"# Decisions & Rejections\n\n">>
               \o [i \in 1..Len(full_immortal) |-> format_event_line(full_immortal[i], TRUE)]
               \o [i \in 1..Len(summary_immortal) |-> format_event_line(summary_immortal[i], FALSE)]
               \o <<"\n">>
        ELSE <<>>
      plan ==
        IF active_plan # <<>>
        THEN <<"## Active Plan\n\n">>
               \o [i \in 1..Len(active_plan) |-> format_event_line(active_plan[i], TRUE)]
               \o <<"\n">>
        ELSE <<>>
      context ==
        IF recent # <<>>
        THEN <<"## Recent Context\n\n">>
               \o [i \in 1..Len(recent) |-> format_event_line(recent[i], TRUE)]
        ELSE <<>>
  IN add_all(decisions \o plan \o context, 0, max_chars)

\* create_event_store: the file store at tier 0, the SQL store above.
create_event_store(cfg) == IF cfg.storage_tier >= 1 THEN 1 ELSE 0

\* _cache_briefing: the ids of the events of the briefing are saved with it.
cache_briefing(conn, branch, markdown, event_ids, t, ttl_hours) ==
  save_snapshot(conn, branch, markdown, event_ids, IF event_ids # <<>> THEN event_ids[1] ELSE 0, t, ttl_hours)

\* [e.id for e in all_events]
event_ids_of(all_events) == [i \in 1..Len(all_events) |-> all_events[i].id]

\* The end of generate_briefing: at tier 1 and above the rendered briefing is
\* saved as the snapshot of the branch key.
cache_and_return(cfg, sql, conn, db, branch, t, markdown, event_ids) ==
  [text |-> markdown, cached |-> FALSE, event_ids |-> event_ids,
   db |-> IF cfg.storage_tier >= 1 /\ sql
          THEN cache_briefing(conn, branch, markdown, event_ids, t, cfg.snapshot_ttl_hours)
          ELSE db]

\* The middle of generate_briefing: the briefing is rendered from the
\* sections of load_for_briefing within the budget of the config.
render_and_cache(cfg, sql, conn, db, branch, t, data) ==
  cache_and_return(cfg, sql, conn, db, branch, t,
                   render_briefing(data.immortal, data.active_plan, data.recent,
                                   cfg.max_briefing_tokens * CHARS_PER_TOKEN,
                                   cfg.max_full_decisions, cfg.max_summary_decisions),
                   event_ids_of(data.immortal \o data.active_plan \o data.recent))

\* The snapshot that was found is returned as it is.
return_cached(snapshot, conn) ==
  [text |-> snapshot.briefing_markdown, cached |-> TRUE, event_ids |-> snapshot.event_ids, db |-> conn]

\* generate_briefing(config, branch, use_cache): the text returned and the
\* database left behind.  At tier 1 and above a valid snapshot of the branch
\* key is returned as it is; otherwise the briefing is rendered from the
\* store and saved.
generate_briefing(cfg, file, db, branch, use_cache, t) ==
  LET sql == create_event_store(cfg) = 1
      conn == IF sql THEN get_conn(db) ELSE db
      cached == IF use_cache /\ cfg.storage_tier >= 1 /\ sql THEN get_valid_snapshot(conn, branch, t) ELSE {}
  IN IF cached # {}
     THEN return_cached(CHOOSE c \in cached : TRUE, conn)
     ELSE render_and_cache(cfg, sql, conn, db, branch, t,
                           IF sql THEN SQLiteEventStore_load_for_briefing(db, branch, t)
                           ELSE EventStore_load_for_briefing(file, branch, t))

\* ------------------------------------------------------ transcript reader

\* The transcript is a string of bytes, one record per line.  A record is
\* written as the text of its single text block: every line stands for an
\* assistant record with that text and without sessionId and gitBranch, so
\* that the defaults of the handler apply.  Blank lines are skipped.

\* The bytes of the transcript file: its writes, one after the other.
RECURSIVE Bytes(_)
Bytes(writes) == IF writes = <<>> THEN "" ELSE Head(writes) \o Bytes(Tail(writes))

\* The position of the last newline of data, 0 when there is none.
RECURSIVE last_newline(_)
last_newline(data) ==
  IF Len(data) = 0 THEN 0
  ELSE IF SubSeq(data, Len(data), Len(data)) = "\n" THEN Len(data)
  ELSE last_newline(SubSeq(data, 1, Len(data) - 1))

\* The lines of a string that ends with a newline (or is empty).
RECURSIVE split_lines(_)
split_lines(data) ==
  IF Len(data) = 0 THEN <<>>
  ELSE LET line == first_line(data)
       IN <<line>> \o split_lines(SubSeq(data, Len(line) + 2, Len(data)))

\* A parsed record.
parse_line(line) == [role |-> "assistant", text |-> line, session_id |-> "", git_branch |-> ""]

\* TranscriptReader.read_new(from_offset): seek, read the complete lines,
\* parse each; last_offset is the position right after the last complete
\* line, a partial trailing line stays unread.
read_new(file, from_offset) ==
  LET data == SubSeq(file, from_offset + 1, Len(file))
      complete == last_newline(data)
      lines == SelectSeq(split_lines(SubSeq(data, 1, complete)), LAMBDA l : strip(l) # "")
  IN [entries |-> [i \in 1..Len(lines) |-> parse_line(lines[i])],
      last_offset |-> from_offset + complete]

\* ------------------------------------------------------------ extractors

\* SEMANTIC_PATTERNS, in their order: keyword and event type.
SEMANTIC_PATTERNS ==
  << <<"Decision:", "decision_made">>, <<"Rejected:", "approach_rejected">>,
     <<"Fixed:", "error_resolved">>, <<"Error resolved:", "error_resolved">>,
     <<"Learned:", "knowledge_acquired">>, <<"Lesson:", "knowledge_acquired">>,
     <<"TIL:", "knowledge_acquired">>, <<"Preference:", "preference_noted">> >>

StartsWith(s, prefix) == Len(s) >= Len(prefix) /\ SubSeq(s, 1, Len(prefix)) = prefix

\* str.rstrip("*")
RECURSIVE rstrip_stars(_)
rstrip_stars(s) ==
  IF Len(s) > 0 /\ SubSeq(s, Len(s), Len(s)) = "*" THEN rstrip_stars(SubSeq(s, 1, Len(s) - 1)) ELSE s

\* The text after ^\s*\*{0,2}: leading blanks, then at most two stars.
after_bold(line) ==
  LET a == lstrip(line)
      b == IF StartsWith(a, "*") THEN SubSeq(a, 2, Len(a)) ELSE a
  IN IF StartsWith(a, "*") /\ StartsWith(b, "*") THEN SubSeq(b, 2, Len(b)) ELSE b

\* One pattern on one line of text: the cleaned capture, "" when the pattern
\* does not match or nothing is left of the capture.
semantic_match(line, keyword) ==
  IF StartsWith(after_bold(line), keyword)
  THEN strip(rstrip_stars(strip(SubSeq(after_bold(line), Len(keyword) + 1, Len(after_bold(line))))))
  ELSE ""

\* extract_semantic: what is to be created, as <<type, content, session, branch>>.
extract_semantic(entry, session_id, git_branch) ==
  IF entry.role # "assistant" \/ strip(entry.text) = "" THEN <<>>
  ELSE LET sid == IF entry.session_id # "" THEN entry.session_id ELSE session_id
           branch == IF entry.git_branch # "" THEN entry.git_branch ELSE git_branch
           hits == SelectSeq(SEMANTIC_PATTERNS, LAMBDA pat : semantic_match(entry.text, pat[1]) # "")
       IN [i \in 1..Len(hits) |-> <<hits[i][2], semantic_match(entry.text, hits[i][1]), sid, branch>>]

\* The position of the first occurrence of sub in s, 0 when there is none.
RECURSIVE index_of(_, _)
index_of(s, sub) ==
  IF Len(s) < Len(sub) THEN 0
  ELSE IF StartsWith(s, sub) THEN 1
  ELSE LET k == index_of(SubSeq(s, 2, Len(s)), sub) IN IF k = 0 THEN 0 ELSE k + 1

\* _MEMORY_TAG_RE.finditer: the captures of [MEMORY: ...], each up to the
\* first closing bracket after at least one character.
RECURSIVE memory_tags(_)
memory_tags(text) ==
  LET open == index_of(text, "[MEMORY:") IN
  IF open = 0 THEN <<>>
  ELSE LET body == SubSeq(text, open + 8, Len(text))
           close == index_of(SubSeq(body, 2, Len(body)), "]")
       IN IF close = 0 THEN <<>>
          ELSE <<SubSeq(body, 1, close)>> \o memory_tags(SubSeq(body, close + 2, Len(body)))

\* extract_explicit
extract_explicit(entry, session_id, git_branch) ==
  IF entry.text = "" THEN <<>>
  ELSE LET sid == IF entry.session_id # "" THEN entry.session_id ELSE session_id
           branch == IF entry.git_branch # "" THEN entry.git_branch ELSE git_branch
           tags == SelectSeq(memory_tags(entry.text), LAMBDA c : strip(c) # "")
       IN [i \in 1..Len(tags) |-> <<"knowledge_acquired", strip(tags[i]), sid, branch>>]

\* extract_structural: the modelled records carry no tool call and no tool
\* result, so the layer yields nothing.
extract_structural(entry, session_id, git_branch) == <<>>

\* The three layers over the entries, in the order of the entries.
RECURSIVE extract_layers(_, _, _)
extract_layers(entries, session_id, git_branch) ==
  IF entries = <<>> THEN <<>>
  ELSE extract_structural(Head(entries), session_id, git_branch)
         \o extract_semantic(Head(entries), session_id, git_branch)
         \o extract_explicit(Head(entries), session_id, git_branch)
         \o extract_layers(Tail(entries), session_id, git_branch)

\* _deduplicate: the first event of every content hash.
deduplicate(events) == NewEvents({}, events)

\* The create_event calls of the layers, with the fresh ids from id on.
create_all(found, id, t) ==
  [i \in 1..Len(found) |-> create_event(id + i - 1, found[i][1], found[i][2], found[i][3], found[i][4], t)]

\* extract_events: the three layers, then _deduplicate.
extract_events(entries, session_id, git_branch, id, t) ==
  deduplicate(create_all(extract_layers(entries, session_id, git_branch), id, t))

\* ------------------------------------------------------------ inputs

\* How a caller builds an event: through the factory, or with the dataclass
\* constructor and an immortal flag of its own choice.
Constructions == {"create_event", "Event_immortal", "Event_mortal"}

\* Contents and session ids with and without the separator of content_hash.
InputTypes == {"decision_made", "knowledge_acquired"}
InputContents == {"a", "a:b"}
InputSessions == {"s", "b:s"}

\* The inputs of the store operations: how the event is built and from what.
\* Every construction of every type, and every content with every session.
StoreInputs ==
  (Constructions \X InputTypes \X {"a"} \X {"s"} \X {"main"})
    \cup ({"create_event"} \X {"knowledge_acquired"} \X InputContents \X InputSessions \X {"main"})

\* The event a caller builds from the input p, with the fresh id.
Construct(p, id, t) ==
  IF p[1] = "create_event" THEN create_event(id, p[2], p[3], p[4], p[5], t)
  ELSE Event(id, p[4], p[5], p[2], p[3], DEFAULT_SALIENCE[p[2]], t, t, 0, p[1] = "Event_immortal")

\* The events built from the inputs ps, with the fresh ids from id on.
ConstructAll(ps, id, t) == [i \in 1..Len(ps) |-> Construct(ps[i], id + i - 1, t)]

\* History of the constructions.
Record(ps) == [i \in 1..Len(ps) |-> [factory |-> ps[i][1] = "create_event", immortal |-> Construct(ps[i], 0, 0).immortal]]

\* Batches of at most n inputs.
Batches(inputs, n) == UNION {[1..k -> inputs] : k \in 0..n}

NoLast ==
  [op |-> "none", tier |-> 0, batch |-> <<>>, rc |-> 0, raised |-> FALSE, cached |-> FALSE, branch |-> "",
   text |-> "", event_ids |-> <<>>, from_tier |-> -1, undoes |-> FALSE,
   success |-> FALSE, to_tier |-> -1, error |-> "", results |-> <<>>, max_chars |-> 0,
   stop_hook_active |-> FALSE, old_todos |-> <<>>, new_todos |-> <<>>, force |-> FALSE,
   pc |-> "", passes |-> 0, generated |-> 0, fts_results |-> <<>>, vec_results |-> <<>>, limit |-> 0,
   before |-> [events_json |-> NoFile, state_json |-> NoState]]

\* The processes that may run a hook at the same time.
Procs == {1, 2}

\* No process is in append_many.
NoInvocations == [p \in Procs |-> [pc |-> "idle", events |-> <<>>, existing_hashes |-> {}]]

\* A rules file that does not exist.
NoText == [exists |-> FALSE, text |-> ""]

\* No write_text call is in flight.  Of a call in flight or crashed, the
\* record holds the file, the content to write and the file as it was.
NoOpenFile == [pc |-> "closed", name |-> "", content |-> "", previous |-> NoText]

\* An empty archive directory.
NoArchive == [events_json |-> NoFile, state_json |-> NoState]

DefaultConfig ==
  [storage_tier |-> 0, max_briefing_tokens |-> 3000, max_full_decisions |-> 50,
   max_summary_decisions |-> 30, snapshot_ttl_hours |-> DEFAULT_SNAPSHOT_TTL_HOURS]

\* ------------------------------------------- specification of the two stores

InitStore ==
  /\ config = DefaultConfig
  /\ events_json = NoFile
  /\ state_json = NoState
  /\ events_db = NoDb
  /\ backups = <<>>
  /\ archive = NoArchive
  /\ transcript = <<>>
  /\ briefing_md = NoText
  /\ context_md = NoText
  /\ now = 0
  /\ next_id = 1
  /\ constructed = <<>>
  /\ last = NoLast
  /\ invocations = NoInvocations
  /\ open_file = NoOpenFile

\* store = EventStore(...); store.append(event)
JsonAppend(inputs) ==
  \E p \in inputs :
    /\ next_id <= MaxEvents
    /\ events_json' = EventStore_append(events_json, Construct(p, next_id, now))
    /\ next_id' = next_id + 1
    /\ constructed' = constructed \o Record(<<p>>)
    /\ last' = [NoLast EXCEPT !.op = "append", !.tier = 0, !.batch = <<Construct(p, next_id, now)>>]
    /\ UNCHANGED <<config, state_json, events_db, backups, archive, transcript, briefing_md, context_md, now, invocations, open_file>>

\* store = EventStore(...); store.append_many(events)
JsonAppendMany(inputs) ==
  \E ps \in Batches(inputs, MaxEvents) :
    /\ next_id + Len(ps) <= MaxEvents + 1
    /\ events_json' = EventStore_append_many(events_json, ConstructAll(ps, next_id, now))
    /\ next_id' = next_id + Len(ps)
    /\ constructed' = constructed \o Record(ps)
    /\ last' = [NoLast EXCEPT !.op = "append_many", !.tier = 0, !.batch = ConstructAll(ps, next_id, now)]
    /\ UNCHANGED <<config, state_json, events_db, backups, archive, transcript, briefing_md, context_md, now, invocations, open_file>>

\* store = SQLiteEventStore(...); store.append(event)
SqlAppend(inputs) ==
  \E p \in inputs :
    /\ next_id <= MaxEvents
    /\ events_db' = SQLiteEventStore_append(events_db, Construct(p, next_id, now))
    /\ next_id' = next_id + 1
    /\ constructed' = constructed \o Record(<<p>>)
    /\ last' = [NoLast EXCEPT !.op = "append", !.tier = 1, !.batch = <<Construct(p, next_id, now)>>]
    /\ UNCHANGED <<config, state_json, events_json, backups, archive, transcript, briefing_md, context_md, now, invocations, open_file>>

\* store = SQLiteEventStore(...); store.append_many(events)
SqlAppendMany(inputs) ==
  \E ps \in Batches(inputs, MaxEvents) :
    /\ next_id + Len(ps) <= MaxEvents + 1
    /\ events_db' = SQLiteEventStore_append_many(events_db, ConstructAll(ps, next_id, now))
    /\ next_id' = next_id + Len(ps)
    /\ constructed' = constructed \o Record(ps)
    /\ last' = [NoLast EXCEPT !.op = "append_many", !.tier = 1, !.batch = ConstructAll(ps, next_id, now)]
    /\ UNCHANGED <<config, state_json, events_json, backups, archive, transcript, briefing_md, context_md, now, invocations, open_file>>

NextStore ==
  \/ JsonAppend(StoreInputs)
  \/ JsonAppendMany(StoreInputs)
  \/ SqlAppend(StoreInputs)
  \/ SqlAppendMany(StoreInputs)

Spec == InitStore /\ [][NextStore]_vars

\* What load_all returns from the store of the given tier.
Stored(tier, file, db) ==
  IF tier = 0 THEN EventStore_load_all(file) ELSE SQLiteEventStore_load_all(db)

NoSharedHash(events) ==
  \A i, j \in 1..Len(events) : content_hash(events[i]) = content_hash(events[j]) => i = j

StoredIds(events) == {e.id : e \in Range(events)}

\* C2, as stated: in every reachable state of either store, states reached
\* through single append calls included, there is exactly one stored event
\* per distinct content hash: no two stored events share a hash.
C2_OneEventPerHash ==
  /\ NoSharedHash(EventStore_load_all(events_json))
  /\ NoSharedHash(SQLiteEventStore_load_all(events_db))

\* C2, amended: append_many stores no event whose content hash is already
\* stored or occurs earlier in its batch.  It keeps the stored events, adds
\* only events of the batch, leaves the store with exactly the hashes of the
\* stored and the passed-in events, and a store without a shared hash before
\* the call has none after it.  A single append always adds its event.
C2_AppendManyDeduplicates ==
  [][LET before == Stored(last'.tier, events_json, events_db)
         after == Stored(last'.tier, events_json', events_db')
     IN /\ last'.op = "append_many" =>
             /\ Hashes(after) = Hashes(before) \cup Hashes(last'.batch)
             /\ Len(after) >= Len(before) /\ SubSeq(after, 1, Len(before)) = before
             /\ \A i \in Len(before) + 1..Len(after) : after[i] \in Range(last'.batch)
             /\ \A i \in Len(before) + 1..Len(after) :
                  \A j \in 1..Len(after) : content_hash(after[i]) = content_hash(after[j]) => i = j
             /\ NoSharedHash(before) => NoSharedHash(after)
        /\ last'.op = "append" => after = before \o last'.batch]_vars

\* C2 witness: an append_many has stored one event of its batch and dropped
\* another one.
C2_Witness ==
  /\ last.op = "append_many"
  /\ \E i, j \in 1..Len(last.batch) :
       LET ids == StoredIds(Stored(last.tier, events_json, events_db))
       IN last.batch[i].id \in ids /\ last.batch[j].id \notin ids

\* Every event the two stores return.
AllStored == Range(EventStore_load_all(events_json)) \cup Range(SQLiteEventStore_load_all(events_db))

MaxTime == 1

\* Events of both kinds, on a branch and without one; events of one type
\* share their hash.  The branch key "" is the one of generate_briefing
\* without a branch.
CacheBranches == {"", "main"}
CacheInputs == {"create_event"} \X InputTypes \X {"a"} \X {"s"} \X CacheBranches

\* Values of max_briefing_tokens: the default and one that truncates.
Budgets == {9, 3000}

InitCache ==
  /\ config = [DefaultConfig EXCEPT !.storage_tier = 1]
  /\ events_json = NoFile
  /\ state_json = NoState
  /\ events_db = NoDb
  /\ backups = <<>>
  /\ archive = NoArchive
  /\ transcript = <<>>
  /\ briefing_md = NoText
  /\ context_md = NoText
  /\ now = 0
  /\ next_id = 1
  /\ constructed = <<>>
  /\ last = NoLast
  /\ invocations = NoInvocations
  /\ open_file = NoOpenFile

\* generate_briefing(project_hash, config, branch, use_cache) with the config
\* in force and the clock of the call; branch "" stands for None.
GenerateBriefing ==
  \E branch \in CacheBranches, use_cache \in BOOLEAN :
    \E r \in {generate_briefing(config, events_json, events_db, branch, use_cache, now)} :
    /\ events_db' = r.db
    /\ last' = [NoLast EXCEPT !.op = "generate_briefing", !.tier = create_event_store(config), !.branch = branch,
                              !.cached = r.cached, !.text = r.text, !.event_ids = r.event_ids]
    /\ UNCHANGED <<config, events_json, state_json, backups, archive, transcript, briefing_md, context_md, now, next_id, constructed, invocations, open_file>>

\* The user saves a config with another briefing budget.
EditBudget ==
  \E tokens \in Budgets \ {config.max_briefing_tokens} :
    /\ config' = [config EXCEPT !.max_briefing_tokens = tokens]
    /\ last' = [NoLast EXCEPT !.op = "save_config"]
    /\ UNCHANGED <<events_json, state_json, events_db, backups, archive, transcript, briefing_md, context_md, now, next_id, constructed, invocations, open_file>>

\* An hour passes.
Tick ==
  /\ now < MaxTime
  /\ now' = now + 1
  /\ last' = [NoLast EXCEPT !.op = "tick"]
  /\ UNCHANGED <<config, events_json, state_json, events_db, backups, archive, transcript, briefing_md, context_md, next_id, constructed, invocations, open_file>>

NextCache ==
  \/ SqlAppend(CacheInputs)
  \/ SqlAppendMany(CacheInputs)
  \/ GenerateBriefing
  \/ EditBudget
  \/ Tick

SpecCache == InitCache /\ [][NextCache]_vars

\* The events of the SQL store.
SqlEvents == SQLiteEventStore_load_all(events_db)

\* C4, as stated: every append or append_many on the SQL store that adds at
\* least one new event leaves no valid snapshot for the branch of any added
\* event nor for the empty-branch key.
C4_AppendInvalidatesSnapshots ==
  (last.op \in {"append", "append_many"} /\ last.tier = 1) =>
    \A e \in Range(last.batch) :
      e.id \in StoredIds(SqlEvents) =>
        /\ get_valid_snapshot(events_db, e.git_branch, now) = {}
        /\ get_valid_snapshot(events_db, "", now) = {}

\* C5, as stated: on the SQL tier a briefing returned by generate_briefing(b)
\* is composed from the store as it stands at the call: it covers every
\* stored event that matches the branch filter b, also those appended after
\* a snapshot of b was saved.
C5_BriefingCoversTheStore ==
  (last.op = "generate_briefing" /\ last.tier = 1) =>
    \A e \in Range(branch_filter(SqlEvents, last.branch)) : e.id \in Range(last.event_ids)

\* C8, as stated: snapshot invalidation and the insertion of new events
\* commit together: no committed state of the database holds a still-valid
\* snapshot next to an event that was inserted after the snapshot was saved
\* and whose insertion invalidates it (same branch, or the empty-branch key).
C8_NoEventBesideOlderSnapshot ==
  \A s \in events_db.snapshots :
    s.expires_at > now =>
      \A e \in Range(SqlEvents) :
        (e.git_branch = s.git_branch \/ s.git_branch = "") => e.id \in Range(s.event_ids)

\* C9, as stated: every string generate_briefing returns, fresh or from a
\* snapshot, has at most 4 * max_briefing_tokens characters under the config
\* in force at the call.
C9_BriefingWithinBudget ==
  last.op = "generate_briefing" => Len(last.text) <= CHARS_PER_TOKEN * config.max_briefing_tokens

\* ------------------------------------------------------------ hook handlers

\* The transcript that the host writes, and a path where there is no file.
TranscriptPath == "t.jsonl"
MissingPath == "missing.jsonl"

\* identify_project(cwd)["git_branch"]: the branch that is checked out.
GitBranch == "main"

\* A payload that is not a JSON object: payload.get raises AttributeError.
NotADict == [not_a_dict |-> TRUE]
IsDict(payload) == "not_a_dict" \notin DOMAIN payload

\* The steps of a handler that can raise; "none" is a run without exception.
HookSteps ==
  {"none", "identify_project", "load_config", "read_new", "extract_events",
   "append_many", "state_update", "generate_briefing", "retrieve_relevant_context", "write_text"}

\* HookState.load: defaults when state.json is missing.
HookState_load(state) == IF state.exists THEN state ELSE NoState

\* from_offset: 0 when the transcript is another one than the last.
from_offset_of(state_data, path) ==
  IF path # state_data.last_transcript_path THEN 0 ELSE state_data.last_transcript_position

\* store = create_event_store(project_hash, config); store.append_many(events)
store_append_many(cfg, file, db, events) ==
  IF events = <<>> THEN [events_json |-> file, events_db |-> db]
  ELSE IF create_event_store(cfg) = 1
  THEN [events_json |-> file, events_db |-> SQLiteEventStore_append_many(db, events)]
  ELSE [events_json |-> EventStore_append_many(file, events), events_db |-> db]

\* The files as they are, nothing raised, no event created.
Untouched ==
  [raised |-> FALSE, events_json |-> events_json, events_db |-> events_db, state_json |-> state_json,
   briefing_md |-> briefing_md, context_md |-> context_md, created |-> <<>>]

\* An exception before anything was written.
Raised == [Untouched EXCEPT !.raised = TRUE]

\* The exception escapes the handler and the process ends with status 1.
uncaught(run) == IF run.raised THEN 1 ELSE 0

\* try: ... return 0 / except Exception: print(...); return 0
except_Exception(run) == IF run.raised THEN 0 ELSE 0

\* handle_stop from state.update on, after entries were read.
stop_update(payload, step, reader, created, stored) ==
  LET appended == [Untouched EXCEPT !.events_json = stored.events_json, !.events_db = stored.events_db,
                                    !.created = created]
      state_data == HookState_load(state_json)
  IN IF step = "state_update" THEN [appended EXCEPT !.raised = TRUE]
     ELSE [appended EXCEPT !.state_json =
             [state_data EXCEPT !.exists = TRUE, !.last_transcript_position = reader.last_offset,
                                !.last_transcript_path = payload["transcript_path"],
                                !.last_session_id = Get(payload, "session_id", ""),
                                !.session_count = state_data.session_count + 1,
                                !.last_extraction_time = now]]

\* handle_stop from "if events: store.append_many(events)" on.
stop_store(payload, step, reader, created, events) ==
  IF step = "append_many" /\ events # <<>> THEN [Raised EXCEPT !.created = created]
  ELSE stop_update(payload, step, reader, created, store_append_many(config, events_json, events_db, events))

\* handle_stop from "if not entries" on.
stop_extract(payload, step, reader) ==
  IF reader.entries = <<>>
  THEN IF step = "state_update" THEN Raised
       ELSE [Untouched EXCEPT !.state_json =
               [HookState_load(state_json) EXCEPT !.exists = TRUE, !.last_transcript_position = reader.last_offset,
                                                  !.last_transcript_path = payload["transcript_path"],
                                                  !.last_session_id = Get(payload, "session_id", ""),
                                                  !.last_extraction_time = now]]
  ELSE IF step = "extract_events" THEN Raised
  ELSE stop_store(payload, step, reader,
                  create_all(extract_layers(reader.entries, Get(payload, "session_id", ""), GitBranch), next_id, now),
                  extract_events(reader.entries, Get(payload, "session_id", ""), GitBranch, next_id, now))

\* The variant of handle_stop without the test of stop_hook_active.
handle_stop_unguarded(payload, step) ==
  IF ~IsDict(payload) THEN Raised
  ELSE IF Get(payload, "cwd", "") = "" THEN Untouched
  ELSE IF step = "identify_project" THEN Raised
  ELSE IF Get(payload, "transcript_path", "") = "" THEN Untouched
  ELSE IF step = "load_config" THEN Raised
  ELSE IF payload["transcript_path"] # TranscriptPath THEN Untouched
  ELSE IF step = "read_new" THEN Raised
  ELSE stop_extract(payload, step,
                    read_new(Bytes(transcript),
                             from_offset_of(HookState_load(state_json), payload["transcript_path"])))

\* The body of handle_stop; step is the step that raises in this run.
handle_stop(payload, step) ==
  IF ~IsDict(payload) THEN Raised
  ELSE IF Get(payload, "stop_hook_active", FALSE) THEN Untouched
  ELSE IF Get(payload, "cwd", "") = "" THEN Untouched
  ELSE IF step = "identify_project" THEN Raised
  ELSE IF Get(payload, "transcript_path", "") = "" THEN Untouched
  ELSE IF step = "load_config" THEN Raised
  ELSE IF payload["transcript_path"] # TranscriptPath THEN Untouched
  ELSE IF step = "read_new" THEN Raised
  ELSE stop_extract(payload, step,
                    read_new(Bytes(transcript),
                             from_offset_of(HookState_load(state_json), payload["transcript_path"])))

\* Ids that one behaviour of the resumed extraction may use up.
MaxIds == 4

\* How the events that a handler run created enter the history.
Created(run) == [i \in 1..Len(run.created) |-> [factory |-> TRUE, immortal |-> run.created[i].immortal]]

\* The Stop hook: handle_stop(payload).
Stop(inputs, ids) ==
  \E <<payload, step>> \in inputs :
    \E run \in {handle_stop(payload, step)} :
      /\ next_id + Len(run.created) <= ids + 1
      /\ events_json' = run.events_json
      /\ events_db' = run.events_db
      /\ state_json' = run.state_json
      /\ next_id' = next_id + Len(run.created)
      /\ constructed' = constructed \o Created(run)
      /\ last' = [NoLast EXCEPT !.op = "stop", !.raised = run.raised,
                                !.rc = except_Exception(run), !.tier = create_event_store(config),
                                !.stop_hook_active = IsDict(payload) /\ Get(payload, "stop_hook_active", FALSE)]
      /\ UNCHANGED <<config, backups, archive, transcript, briefing_md, context_md, now, invocations, open_file>>

\* handle_precompact from state.update on: neither the session id nor the
\* session count is written.
precompact_update(step, reader, created, stored) ==
  LET appended == [Untouched EXCEPT !.events_json = stored.events_json, !.events_db = stored.events_db,
                                    !.created = created]
  IN IF step = "state_update" THEN [appended EXCEPT !.raised = TRUE]
     ELSE [appended EXCEPT !.state_json =
             [HookState_load(state_json) EXCEPT !.exists = TRUE, !.last_transcript_position = reader.last_offset,
                                                !.last_transcript_path = TranscriptPath,
                                                !.last_extraction_time = now]]

\* handle_precompact from "if events: store.append_many(events)" on.
precompact_store(step, reader, created, events) ==
  IF step = "append_many" /\ events # <<>> THEN [Raised EXCEPT !.created = created]
  ELSE precompact_update(step, reader, created, store_append_many(config, events_json, events_db, events))

\* handle_precompact from "if entries" on: the session id is the stored one.
precompact_extract(step, reader) ==
  IF reader.entries = <<>> THEN Untouched
  ELSE IF step = "extract_events" THEN Raised
  ELSE precompact_store(step, reader,
                        create_all(extract_layers(reader.entries, HookState_load(state_json).last_session_id, GitBranch),
                                   next_id, now),
                        extract_events(reader.entries, HookState_load(state_json).last_session_id, GitBranch,
                                       next_id, now))

\* output_path.write_text(content)
write_text(run, step, briefing) ==
  IF step = "write_text" THEN [run EXCEPT !.raised = TRUE, !.events_db = briefing.db]
  ELSE [run EXCEPT !.events_db = briefing.db, !.briefing_md = [exists |-> TRUE, text |-> briefing.text]]

\* write_briefing_to_file after the run so far, unless that run raised.
write_briefing_to_file(run, cfg, branch, step) ==
  IF run.raised THEN run
  ELSE IF step = "generate_briefing" THEN [run EXCEPT !.raised = TRUE]
  ELSE write_text(run, step, generate_briefing(cfg, run.events_json, run.events_db, branch, TRUE, now))

\* The body of handle_precompact; found tells whether find_latest_transcript
\* returns the transcript.
handle_precompact(payload, step, found) ==
  IF ~IsDict(payload) THEN Raised
  ELSE IF Get(payload, "cwd", "") = "" THEN Untouched
  ELSE IF step \in {"identify_project", "load_config"} THEN Raised
  ELSE write_briefing_to_file(
         IF ~found THEN Untouched
         ELSE IF step = "read_new" THEN Raised
         ELSE precompact_extract(step, read_new(Bytes(transcript),
                                                from_offset_of(HookState_load(state_json), TranscriptPath))),
         config, GitBranch, step)

\* The body of handle_session_start.
handle_session_start(payload, step) ==
  IF ~IsDict(payload) THEN Raised
  ELSE IF Get(payload, "cwd", "") = "" THEN Untouched
  ELSE IF step \in {"identify_project", "load_config"} THEN Raised
  ELSE write_briefing_to_file(Untouched, config, GitBranch, step)

\* What retrieve_relevant_context comes to: embeddings are not available,
\* the search finds nothing, or it finds events.
Retrievals == {"unavailable", "no_results", "results"}

\* write_relevant_context_to_file: retrieve_relevant_context returns None
\* for a prompt of whitespace before it does anything else; the search opens
\* the database; without results a stale context file is removed.
write_relevant_context_to_file(prompt, step, retrieval) ==
  IF strip(prompt) = "" THEN [Untouched EXCEPT !.context_md = NoText]
  ELSE IF step = "retrieve_relevant_context" THEN Raised
  ELSE IF retrieval = "unavailable" THEN [Untouched EXCEPT !.context_md = NoText]
  ELSE IF retrieval = "no_results" THEN [Untouched EXCEPT !.events_db = get_conn(@), !.context_md = NoText]
  ELSE IF step = "write_text" THEN [Raised EXCEPT !.events_db = get_conn(@)]
  ELSE [Untouched EXCEPT !.events_db = get_conn(@),
                         !.context_md = [exists |-> TRUE, text |-> "# Relevant Context\n"]]

\* The variant of handle_user_prompt_submit that retrieves on every tier.
handle_user_prompt_submit_any_tier(payload, step, retrieval) ==
  IF ~IsDict(payload) THEN Raised
  ELSE IF Get(payload, "cwd", "") = "" \/ Get(payload, "prompt", "") = "" THEN Untouched
  ELSE IF step \in {"identify_project", "load_config"} THEN Raised
  ELSE write_relevant_context_to_file(payload["prompt"], step, retrieval)

\* The body of handle_user_prompt_submit.
handle_user_prompt_submit(payload, step, retrieval) ==
  IF ~IsDict(payload) THEN Raised
  ELSE IF Get(payload, "cwd", "") = "" \/ Get(payload, "prompt", "") = "" THEN Untouched
  ELSE IF step \in {"identify_project", "load_config"} THEN Raised
  ELSE IF config.storage_tier < 2 THEN Untouched
  ELSE write_relevant_context_to_file(payload["prompt"], step, retrieval)

\* The PreCompact hook: handle_precompact(payload).
PreCompact(inputs, ids) ==
  \E <<payload, step>> \in inputs, found \in BOOLEAN :
    \E run \in {handle_precompact(payload, step, found)} :
      /\ next_id + Len(run.created) <= ids + 1
      /\ events_json' = run.events_json
      /\ events_db' = run.events_db
      /\ state_json' = run.state_json
      /\ briefing_md' = run.briefing_md
      /\ next_id' = next_id + Len(run.created)
      /\ constructed' = constructed \o Created(run)
      /\ last' = [NoLast EXCEPT !.op = "precompact", !.raised = run.raised,
                                !.rc = except_Exception(run), !.tier = create_event_store(config)]
      /\ UNCHANGED <<config, backups, archive, transcript, context_md, now, invocations, open_file>>

\* The SessionStart hook: handle_session_start(payload).
SessionStart(inputs) ==
  \E <<payload, step>> \in inputs :
    \E run \in {handle_session_start(payload, step)} :
      /\ events_db' = run.events_db
      /\ briefing_md' = run.briefing_md
      /\ last' = [NoLast EXCEPT !.op = "session_start", !.raised = run.raised,
                                !.rc = except_Exception(run), !.tier = create_event_store(config)]
      /\ UNCHANGED <<config, events_json, state_json, backups, archive, transcript, context_md, now, next_id, constructed, invocations, open_file>>

\* The UserPromptSubmit hook: handle_user_prompt_submit(payload).
UserPromptSubmit(inputs, retrievals) ==
  \E <<payload, step>> \in inputs, retrieval \in retrievals :
    \E run \in {handle_user_prompt_submit(payload, step, retrieval)} :
      /\ events_db' = run.events_db
      /\ context_md' = run.context_md
      /\ last' = [NoLast EXCEPT !.op = "user_prompt_submit", !.raised = run.raised,
                                !.rc = except_Exception(run), !.tier = create_event_store(config)]
      /\ UNCHANGED <<config, events_json, state_json, backups, archive, transcript, briefing_md, now, next_id, constructed, invocations, open_file>>

\* ------------------------------ specification of the resumed extraction

\* Writes of the host to the transcript.
MaxChunks == 3

\* What the host writes at once: whole records, the start of a record and
\* the end of a record.  Two records state the same decision and two yield
\* the same knowledge event.
Chunks == {"Decision: a", "\n", "Decision: a\n", "Learned: b\n", "[MEMORY: b]\n"}

\* The Stop payload of the session.
SessionPayload ==
  [hook_event_name |-> "Stop", cwd |-> "/p", transcript_path |-> TranscriptPath, session_id |-> "s1",
   stop_hook_active |-> FALSE]

InitResume ==
  /\ config \in {[DefaultConfig EXCEPT !.storage_tier = tier] : tier \in {0, 1}}
  /\ events_json = NoFile
  /\ state_json = NoState
  /\ events_db = NoDb
  /\ backups = <<>>
  /\ archive = NoArchive
  /\ transcript = <<>>
  /\ briefing_md = NoText
  /\ context_md = NoText
  /\ now = 0
  /\ next_id = 1
  /\ constructed = <<>>
  /\ last = NoLast
  /\ invocations = NoInvocations
  /\ open_file = NoOpenFile

\* The host appends to the transcript, at most n times.
GrowTranscript(chunks, n) ==
  \E chunk \in chunks :
    /\ Len(transcript) < n
    /\ transcript' = Append(transcript, chunk)
    /\ last' = [NoLast EXCEPT !.op = "write"]
    /\ UNCHANGED <<config, events_json, state_json, events_db, backups, archive, briefing_md, context_md, now, next_id, constructed, invocations, open_file>>

NextResume ==
  \/ GrowTranscript(Chunks, MaxChunks)
  \/ Stop({<<SessionPayload, "none">>}, MaxIds)

SpecResume == InitResume /\ [][NextResume]_vars

\* The events of the store that create_event_store(config) selects.
ActiveEvents == Stored(create_event_store(config), events_json, events_db)

\* What an event states: everything but its id and its timestamps.
Facts(events) ==
  [i \in 1..Len(events) |->
     <<events[i].type, events[i].content, events[i].session_id, events[i].git_branch, events[i].immortal>>]

\* One extraction from offset 0 over the whole file into an empty store.
one_shot(stored) == Stored(create_event_store(config), stored.events_json, stored.events_db)
OneShot ==
  one_shot(store_append_many(config, NoFile, NoDb,
                             extract_events(read_new(Bytes(transcript), 0).entries, "s1", GitBranch, 1, now)))

\* C3: after a Stop run, whatever the points at which the transcript grew
\* and at which earlier Stop runs read it (from offset 0, then from the
\* stored offset), the store holds the events that one extraction from
\* offset 0 over the whole file stores, in the same order.
C3_ResumeEqualsOneShot ==
  last.op = "stop" => Facts(ActiveEvents) = Facts(OneShot)

\* C3 witness: a second Stop run has read from the stored offset what was
\* appended after the first one, and two events are stored.
C3_Witness ==
  /\ last.op = "stop"
  /\ state_json.session_count >= 2
  /\ Len(ActiveEvents) >= 2
  /\ state_json.last_transcript_position = Len(Bytes(transcript))

\* What the reader of a Stop run reads from the hook-state as it is.
StopReader == read_new(Bytes(transcript), from_offset_of(HookState_load(state_json), TranscriptPath))

\* C18: a Stop run that reaches the transcript read leaves a hook-state
\* whose offset is the reader's new offset, whose session count is one
\* greater than before the run and whose extraction time is the time of the
\* run, whether or not the reader returned entries.
C18_StopCountsEverySession ==
  [][last'.op = "stop" =>
       /\ state_json'.exists
       /\ state_json'.last_transcript_position = StopReader.last_offset
       /\ state_json'.last_extraction_time = now
       /\ state_json'.session_count = HookState_load(state_json).session_count + 1]_vars

\* ------------------------------------- specification of the four hook handlers

\* Writes of the host to the transcript between the hooks.
MaxHookWrites == 1

\* What the host writes to the transcript between the hooks.
HookChunks == {"Decision: a\n"}

\* A complete payload.
CompletePayload ==
  [hook_event_name |-> "hook", cwd |-> "/p", transcript_path |-> TranscriptPath, session_id |-> "s1", prompt |-> "why a"]

\* Payloads that end a handler early: not an object, without any field of
\* the handlers, without a prompt and with a transcript path where there is
\* no file, and of a Stop that a Stop hook caused.
NoFields == [hook_event_name |-> "hook"]
NoPrompt == [hook_event_name |-> "hook", cwd |-> "/p", transcript_path |-> MissingPath]
StopHookActive == [hook_event_name |-> "hook", cwd |-> "/p", transcript_path |-> TranscriptPath, stop_hook_active |-> TRUE]

\* The runs of a handler: its payloads without an exception of a step, and
\* the complete payload with each of its steps raising.
HookInputs(payloads, steps) == (payloads \X {"none"}) \cup ({CompletePayload} \X steps)

StopInputs ==
  HookInputs({NotADict, NoFields, NoPrompt, StopHookActive, CompletePayload},
             {"identify_project", "load_config", "read_new", "extract_events", "append_many", "state_update"})

PreCompactInputs ==
  HookInputs({NotADict, NoFields, CompletePayload},
             HookSteps \ {"none", "retrieve_relevant_context"})

SessionStartInputs ==
  HookInputs({NotADict, NoFields, CompletePayload},
             {"identify_project", "load_config", "generate_briefing", "write_text"})

UserPromptSubmitInputs ==
  HookInputs({NotADict, NoFields, NoPrompt, CompletePayload},
             {"identify_project", "load_config", "retrieve_relevant_context", "write_text"})

\* Ids that one behaviour of the hooks may use up.
MaxHookIds == 2

InitHooks ==
  /\ config \in {[DefaultConfig EXCEPT !.storage_tier = tier] : tier \in {0, 1, 2}}
  /\ events_json = NoFile
  /\ state_json = NoState
  /\ events_db = NoDb
  /\ backups = <<>>
  /\ archive = NoArchive
  /\ transcript = <<>>
  /\ briefing_md = NoText
  /\ context_md = NoText
  /\ now = 0
  /\ next_id = 1
  /\ constructed = <<>>
  /\ last = NoLast
  /\ invocations = NoInvocations
  /\ open_file = NoOpenFile

NextHooks ==
  \/ GrowTranscript(HookChunks, MaxHookWrites)
  \/ Stop(StopInputs, MaxHookIds)
  \/ PreCompact(PreCompactInputs, MaxHookIds)
  \/ SessionStart(SessionStartInputs)
  \/ UserPromptSubmit(UserPromptSubmitInputs, Retrievals)

SpecHooks == InitHooks /\ [][NextHooks]_vars

HookOps == {"stop", "precompact", "session_start", "user_prompt_submit"}

\* C1: every run of each of the four handlers returns 0, whatever the
\* payload (not an object, fields missing) and whichever step raised.
C1_HooksReturnZero ==
  last.op \in HookOps => last.rc = 0

\* C1 witness: a handler got a complete payload, a step of it raised after
\* the store was written, and the run returned 0.
C1_Witness ==
  /\ last.op \in {"stop", "precompact"}
  /\ last.raised
  /\ Len(ActiveEvents) >= 1
  /\ ~state_json.exists
  /\ last.rc = 0

\* The steps of the extraction of handle_precompact.
ExtractionSteps == {"read_new", "extract_events", "append_many", "state_update"}

\* cortex-briefing.md holds, after the step, the briefing of the store as
\* the step leaves it.
BriefingRewritten ==
  /\ briefing_md'.exists
  /\ briefing_md'.text = generate_briefing(config, events_json', events_db', GitBranch, TRUE, now).text

\* C19: every PreCompact run whose payload has a cwd rewrites
\* cortex-briefing.md before it returns, whether or not a transcript is
\* found and whether or not a step of the extraction raises.
C19_PreCompactAlwaysWritesBriefing ==
  [][\A step \in {"none"} \cup ExtractionSteps :
       PreCompact({<<CompletePayload, step>>}, MaxHookIds) => BriefingRewritten]_vars

\* --------------------------------------------------------------- migration

\* vec.count_embeddings: the events whose embedding is not NULL.
count_embeddings(conn) == Cardinality(conn.embedded)

\* detect_tier: the tier, and the database as the connection of
\* store.count_embeddings() and store.count() leaves it.
detect_tier(cfg, file, db) ==
  IF db.exists
  THEN [tier |-> IF cfg.storage_tier >= 2
                      \/ (count_embeddings(get_conn(db)) > 0
                          /\ 2 * count_embeddings(get_conn(db)) >= Len(get_conn(db).events))
                 THEN 2 ELSE 1,
        db |-> get_conn(db)]
  ELSE [tier |-> IF file.exists THEN 0 ELSE -1, db |-> db]

\* get_migration_status after detect_tier; available tells whether
\* sentence-transformers can be imported.
status_of(detected, state, available) ==
  [current_tier |-> detected.tier,
   can_upgrade |-> CASE detected.tier = 0 -> TRUE
                     [] detected.tier = 1 ->
                          available /\ Len(detected.db.events) - count_embeddings(detected.db) > 0
                     [] OTHER -> FALSE,
   has_hook_state |-> detected.tier = 0 /\ state.exists,
   db |-> detected.db]

\* get_migration_status
get_migration_status(cfg, file, state, db, available) ==
  status_of(detect_tier(cfg, file, db), state, available)

\* create_backup: a new directory with the copies of the files that exist.
create_backup(file, state) == [events_json |-> file, state_json |-> state]

\* migrate_events_to_sqlite: one batch; without events no database is opened.
migrate_events_to_sqlite(events, db) ==
  IF events = <<>> THEN db ELSE SQLiteEventStore_append_many(db, events)

\* migrate_hook_state_to_sqlite
migrate_hook_state_to_sqlite(hook_state, db) == [get_conn(db) EXCEPT !.hook_state = hook_state]

\* archive_tier0_files: the files that exist move into archive/.
archive_tier0_files(arch, file, state) ==
  [events_json |-> IF file.exists THEN file ELSE arch.events_json,
   state_json |-> IF state.exists THEN state ELSE arch.state_json]

\* backfill_embeddings: every event with content gets its embedding.
backfill_embeddings(conn) == [conn EXCEPT !.embedded = {conn.events[i].id : i \in 1..Len(conn.events)}]

\* upgrade_to_tier2
upgrade_to_tier2(db, available) ==
  IF ~available THEN db
  ELSE IF Len(get_conn(db).events) = 0 THEN get_conn(db)
  ELSE backfill_embeddings(get_conn(db))

\* The try block of upgrade: backup, load, unlink with force, migrate, archive.
tier0_to_tier1(file, state, db, bks, arch, force) ==
  [events_json |-> NoFile, state_json |-> NoState,
   events_db |-> IF state.exists
                 THEN migrate_hook_state_to_sqlite(
                        HookState_load(state),
                        migrate_events_to_sqlite(EventStore_load_all(file), IF force THEN NoDb ELSE db))
                 ELSE migrate_events_to_sqlite(EventStore_load_all(file), IF force THEN NoDb ELSE db),
   backups |-> Append(bks, create_backup(file, state)),
   archive |-> archive_tier0_files(arch, file, state)]

\* upgrade after get_migration_status: the files it leaves behind.
upgrade_from(status, file, state, bks, arch, dry_run, force, available) ==
  LET returned == [events_json |-> file, state_json |-> state, events_db |-> status.db,
                   backups |-> bks, archive |-> arch]
  IN IF status.current_tier = -1 THEN returned
     ELSE IF status.current_tier = 2 /\ ~force THEN returned
     ELSE IF status.current_tier = 1
     THEN IF ~status.can_upgrade /\ ~force THEN returned
          ELSE IF dry_run THEN returned
          ELSE [returned EXCEPT !.events_db = upgrade_to_tier2(status.db, available)]
     ELSE IF ~status.can_upgrade /\ ~force THEN returned
     ELSE IF dry_run THEN returned
     ELSE tier0_to_tier1(file, state, status.db, bks, arch, force)

\* upgrade after get_migration_status: the MigrationResult it returns.  The
\* messages are cut before their dash or colon.
migration_result(status, dry_run, force, available) ==
  IF status.current_tier = -1
  THEN [success |-> FALSE, to_tier |-> 0, error |-> "No storage found"]
  ELSE IF status.current_tier = 2 /\ ~force
  THEN [success |-> FALSE, to_tier |-> 2, error |-> "Already on Tier 2 (SQLite + Embeddings)"]
  ELSE IF status.current_tier = 1
  THEN IF ~status.can_upgrade /\ ~force
       THEN [success |-> FALSE, to_tier |-> 2,
             error |-> IF available THEN "All events have embeddings" ELSE "Tier 2 upgrade requires sentence-transformers"]
       ELSE IF dry_run THEN [success |-> TRUE, to_tier |-> 2, error |-> ""]
       ELSE IF ~available THEN [success |-> FALSE, to_tier |-> 2, error |-> "sentence-transformers not installed."]
       ELSE [success |-> TRUE, to_tier |-> 2, error |-> ""]
  ELSE IF ~status.can_upgrade /\ ~force
  THEN [success |-> FALSE, to_tier |-> 1, error |-> "Both JSON and SQLite exist"]
  ELSE [success |-> TRUE, to_tier |-> 1, error |-> ""]

\* upgrade(project_hash, config, dry_run, force)
upgrade(cfg, file, state, db, bks, arch, dry_run, force, available) ==
  upgrade_from(get_migration_status(cfg, file, state, db, available), file, state, bks, arch,
               dry_run, force, available)

\* A rollback that copies events.json back and leaves state.json alone.
rollback_without_state(backup, file, state) ==
  [events_db |-> NoDb,
   events_json |-> IF backup.events_json.exists THEN backup.events_json ELSE file,
   state_json |-> state]

\* rollback(project_hash, backup_path): the database is removed and the
\* files of the backup are copied back.
rollback(backup, file, state) ==
  [events_db |-> NoDb,
   events_json |-> IF backup.events_json.exists THEN backup.events_json ELSE file,
   state_json |-> IF backup.state_json.exists THEN backup.state_json ELSE state]

\* ------------------------------------------- specification of the migration

\* Backups that one behaviour may create.
MaxBackups == 1

\* Writes of the host to the transcript.
MaxMigrateWrites == 1

\* What the host writes to the transcript: decisions.
MigrateChunks == {"Decision: a\n", "Decision: b\n"}

\* The decision of a database that the release with schema version 1 wrote.
LegacyEvent == create_event(1, "decision_made", "legacy", "s0", GitBranch, 0)

\* A database of schema version 1: its events table has no embedding column.
LegacyDb == [NoDb EXCEPT !.exists = TRUE, !.versions = {1}, !.events = <<insert_event(LegacyEvent)>>]

\* A project without any store at tier 0, or a project of tier 1 with the
\* database of schema version 1.
InitMigrate ==
  /\ \/ /\ config = DefaultConfig
        /\ events_db = NoDb
        /\ next_id = 1
        /\ constructed = <<>>
     \/ /\ config = [DefaultConfig EXCEPT !.storage_tier = 1]
        /\ events_db = LegacyDb
        /\ next_id = 2
        /\ constructed = <<[factory |-> TRUE, immortal |-> TRUE]>>
  /\ events_json = NoFile
  /\ state_json = NoState
  /\ backups = <<>>
  /\ archive = NoArchive
  /\ transcript = <<>>
  /\ briefing_md = NoText
  /\ context_md = NoText
  /\ now = 0
  /\ last = NoLast
  /\ invocations = NoInvocations
  /\ open_file = NoOpenFile

\* cortex upgrade [--dry-run] [--force]; the step remembers the detected tier
\* and the files of tier 0 as they were before it.
Upgrade ==
  \E dry_run \in BOOLEAN, force \in BOOLEAN, available \in BOOLEAN :
    \E r \in {upgrade(config, events_json, state_json, events_db, backups, archive, dry_run, force, available)},
       result \in {migration_result(get_migration_status(config, events_json, state_json, events_db, available),
                                     dry_run, force, available)} :
      /\ Len(r.backups) <= MaxBackups
      /\ events_json' = r.events_json
      /\ state_json' = r.state_json
      /\ events_db' = r.events_db
      /\ backups' = r.backups
      /\ archive' = r.archive
      /\ last' = [NoLast EXCEPT !.op = IF dry_run THEN "upgrade_dry_run" ELSE "upgrade",
                                !.tier = create_event_store(config),
                                !.from_tier = detect_tier(config, events_json, events_db).tier,
                                !.success = result.success, !.to_tier = result.to_tier, !.error = result.error,
                                !.force = force,
                                !.before = [events_json |-> events_json, state_json |-> state_json]]
      /\ UNCHANGED <<config, transcript, briefing_md, context_md, now, next_id, constructed, invocations, open_file>>

\* rollback to one of the backups; the step remembers whether it directly
\* follows the upgrade from tier 0 that made the backup.
Rollback ==
  \E i \in 1..Len(backups) :
    \E r \in {rollback(backups[i], events_json, state_json)} :
      /\ events_json' = r.events_json
      /\ state_json' = r.state_json
      /\ events_db' = r.events_db
      /\ last' = [NoLast EXCEPT !.op = "rollback", !.tier = create_event_store(config),
                                !.undoes = (last.op = "upgrade" /\ last.from_tier = 0 /\ i = Len(backups)),
                                !.before = last.before]
      /\ UNCHANGED <<config, backups, archive, transcript, briefing_md, context_md, now, next_id, constructed, invocations, open_file>>

\* cmd_reset: EventStore.clear() and HookState.save(_RESET_STATE), on the
\* files of tier 0 whatever the tier.
Reset ==
  /\ events_json' = save_raw(<<>>)
  /\ state_json' = [NoState EXCEPT !.exists = TRUE]
  /\ last' = [NoLast EXCEPT !.op = "reset", !.tier = create_event_store(config)]
  /\ UNCHANGED <<config, events_db, backups, archive, transcript, briefing_md, context_md, now, next_id, constructed, invocations, open_file>>

\* The user saves a config with another storage tier.
SaveTier ==
  \E tier \in {0, 1, 2} \ {config.storage_tier} :
    /\ config' = [config EXCEPT !.storage_tier = tier]
    /\ last' = [NoLast EXCEPT !.op = "save_config"]
    /\ UNCHANGED <<events_json, state_json, events_db, backups, archive, transcript, briefing_md, context_md, now, next_id, constructed, invocations, open_file>>

NextMigrate ==
  \/ GrowTranscript(MigrateChunks, MaxMigrateWrites)
  \/ Stop({<<SessionPayload, "none">>}, MaxHookIds)
  \/ Upgrade
  \/ Rollback
  \/ Reset
  \/ SaveTier

SpecMigrate == InitMigrate /\ [][NextMigrate]_vars

\* The ids of the immortal events that a store returns.
ImmortalIds(events) == {events[i].id : i \in 1..Len(events)}

\* load_immortal of the store that create_event_store(config) selects.
ActiveImmortal ==
  IF create_event_store(config) = 1 THEN ImmortalIds(SQLiteEventStore_load_immortal(events_db))
  ELSE ImmortalIds(EventStore_load_immortal(events_json))

\* load_immortal of the file store and of the SQL store together.
AnyImmortal ==
  ImmortalIds(SQLiteEventStore_load_immortal(events_db)) \cup ImmortalIds(EventStore_load_immortal(events_json))

\* C6, as stated, in its weakest reading: no step other than reset (hook
\* run, upgrade, rollback) removes an immortal event: every event that
\* load_immortal of the active store returned before the step is returned
\* after it by load_immortal of the file store or of the SQL store.
C6_ImmortalEventsSurvive ==
  [][last'.op \notin {"reset", "save_config"} => ActiveImmortal \subseteq AnyImmortal']_vars

\* The files of the project directory.
ProjectFiles == <<events_json, state_json, events_db, backups, archive, briefing_md, context_md>>

\* C10, as stated: a step of upgrade(dry_run=true) leaves every file of the
\* project as it was, whatever the detected tier.
C10_DryRunChangesNothing ==
  [][last'.op = "upgrade_dry_run" => UNCHANGED ProjectFiles]_vars

\* C25: an upgrade of a project detected at tier 2 succeeds with to_tier = 3
\* and leaves every stored event and every embedding as it was.
C25_UpgradeFromTier2ReachesTier3 ==
  [][(last'.op = "upgrade" /\ last'.from_tier = 2) =>
       /\ last'.success
       /\ last'.to_tier = 3
       /\ events_json' = events_json
       /\ events_db'.events = get_conn(events_db).events
       /\ events_db'.embedded = events_db.embedded]_vars

\* C13, as stated: after reset, at whatever tier, the store that the hooks
\* read and write has count 0, the hook state has its defaults, and the next
\* Stop reads the transcript from offset 0.
C13_ResetClearsTheActiveStore ==
  last.op = "reset" =>
    /\ Len(ActiveEvents) = 0
    /\ [HookState_load(state_json) EXCEPT !.exists = FALSE] = NoState
    /\ from_offset_of(HookState_load(state_json), TranscriptPath) = 0

\* ------------------------------- specification of upgrade and rollback

\* Events that a caller appends to the file store one by one, as the
\* fixture of the migration tests does: one input, so two of them share a hash.
MigrateInputs == {<<"create_event", "decision_made", "a", "s1", GitBranch>>}

\* A project of tier 0 that fills its file store through the store and
\* through the Stop hook, is upgraded and rolled back.
NextUndo ==
  \/ GrowTranscript(MigrateChunks, MaxMigrateWrites)
  \/ JsonAppend(MigrateInputs)
  \/ Stop({<<SessionPayload, "none">>}, MaxHookIds)
  \/ Upgrade
  \/ Rollback

\* The project of tier 0 without any store.
InitUndo ==
  /\ InitMigrate
  /\ events_db = NoDb

SpecUndo == InitUndo /\ [][NextUndo]_vars

\* C11, as stated: after a successful upgrade from tier 0 to tier 1 the SQL
\* store holds exactly the events that events.json held before the upgrade:
\* the same ids, none missing and none extra.
C11_UpgradeKeepsEveryEvent ==
  [][(last'.op = "upgrade" /\ last'.from_tier = 0) =>
       StoredIds(SQLiteEventStore_load_all(events_db')) = StoredIds(EventStore_load_all(events_json))]_vars

\* C12: after a rollback that directly follows a successful upgrade from
\* tier 0 and uses the backup of that upgrade, events.db does not exist,
\* events.json and state.json are as they were before the upgrade, and
\* detect_tier returns 0.
C12_RollbackUndoesUpgrade ==
  (last.op = "rollback" /\ last.undoes) =>
    /\ ~events_db.exists
    /\ events_json = last.before.events_json
    /\ state_json = last.before.state_json
    /\ detect_tier(config, events_json, events_db).tier = 0

\* C12 witness: such a rollback has brought back an events.json with an
\* event and a state.json, both of which the upgrade had moved away.
C12_Witness ==
  /\ last.op = "rollback" /\ last.undoes
  /\ Len(EventStore_load_all(events_json)) >= 1
  /\ state_json.exists
  /\ archive.events_json.exists /\ archive.state_json.exists

\* ------------------------------ specification of the two tiers side by side

\* Events that one behaviour may store, events of one append_many call, ids
\* in one mark_accessed call, and accesses of one event.
MaxTierEvents == 3
MaxBatch == 2
MaxIdList == 2
MaxAccess == 1

\* A decision, a plan with a completed step and knowledge on another branch,
\* all built by create_event, and a plan built with the constructor and
\* flagged immortal.
TierBranches == {"", "main"}
TierInputs ==
  ({"create_event"} \X {"decision_made", "plan_created", "plan_step_completed"} \X {"a"} \X {"s"} \X {"main"})
    \cup {<<"create_event", "knowledge_acquired", "a", "s", "other">>}
    \cup {<<"Event_immortal", "plan_created", "a", "s", "main">>}

\* The lists of ids of stored events that a caller passes to mark_accessed:
\* of any length up to MaxIdList, with and without repeated ids.
AccessLists(n) == UNION {[1..k -> 1..n] : k \in 0..MaxIdList}

\* The same append on the store of each tier.
BothAppend ==
  \E p \in TierInputs :
    /\ next_id <= MaxTierEvents
    /\ events_json' = EventStore_append(events_json, Construct(p, next_id, now))
    /\ events_db' = SQLiteEventStore_append(events_db, Construct(p, next_id, now))
    /\ next_id' = next_id + 1
    /\ constructed' = constructed \o Record(<<p>>)
    /\ last' = [NoLast EXCEPT !.op = "append", !.batch = <<Construct(p, next_id, now)>>]
    /\ UNCHANGED <<config, state_json, backups, archive, transcript, briefing_md, context_md, now, invocations, open_file>>

\* The same append_many on the store of each tier.
BothAppendMany ==
  \E ps \in Batches(TierInputs, MaxBatch) :
    /\ next_id + Len(ps) <= MaxTierEvents + 1
    /\ events_json' = EventStore_append_many(events_json, ConstructAll(ps, next_id, now))
    /\ events_db' = SQLiteEventStore_append_many(events_db, ConstructAll(ps, next_id, now))
    /\ next_id' = next_id + Len(ps)
    /\ constructed' = constructed \o Record(ps)
    /\ last' = [NoLast EXCEPT !.op = "append_many", !.batch = ConstructAll(ps, next_id, now)]
    /\ UNCHANGED <<config, state_json, backups, archive, transcript, briefing_md, context_md, now, invocations, open_file>>

\* append_many once more with the list of the call before.
BothAppendManyAgain ==
  /\ last.op = "append_many"
  /\ events_json' = EventStore_append_many(events_json, last.batch)
  /\ events_db' = SQLiteEventStore_append_many(events_db, last.batch)
  /\ last' = [last EXCEPT !.op = "append_many_again"]
  /\ UNCHANGED <<config, state_json, backups, archive, transcript, briefing_md, context_md, now, next_id, constructed, invocations, open_file>>

\* The same mark_accessed on the store of each tier.
BothMarkAccessed ==
  \E ids \in AccessLists(next_id - 1) :
    /\ \A e \in Range(EventStore_load_all(events_json)) : e.id \in Range(ids) => e.access_count < MaxAccess
    /\ events_json' = EventStore_mark_accessed(events_json, ids, now)
    /\ events_db' = SQLiteEventStore_mark_accessed(events_db, ids, now)
    /\ last' = [NoLast EXCEPT !.op = "mark_accessed", !.event_ids = ids]
    /\ UNCHANGED <<config, state_json, backups, archive, transcript, briefing_md, context_md, now, next_id, constructed, invocations, open_file>>

NextTiers ==
  \/ BothAppend
  \/ BothAppendMany
  \/ BothAppendManyAgain
  \/ BothMarkAccessed
  \/ Tick

SpecTiers == InitStore /\ [][NextTiers]_vars

\* The appends alone.
NextBatches ==
  \/ BothAppend
  \/ BothAppendMany
  \/ BothAppendManyAgain

SpecBatches == InitStore /\ [][NextBatches]_vars

\* The buckets of load_for_briefing of the two stores.
FileBuckets(branch) == EventStore_load_for_briefing(events_json, branch, now)
SqlBuckets(branch) == SQLiteEventStore_load_for_briefing(events_db, branch, now)

\* C14, as stated: after the same appends, append_manys and mark_accesseds
\* the two tiers return the same three lists from load_for_briefing, for
\* every branch filter: the same events in the same order.
C14_TiersReturnTheSameBuckets ==
  \A branch \in TierBranches : FileBuckets(branch) = SqlBuckets(branch)

\* Two lists of events without a common id.
Disjoint(a, b) == StoredIds(a) \cap StoredIds(b) = {}

\* Every returned event is one of load_all.
WithinLoadAll(buckets, all_events) ==
  Range(buckets.immortal) \cup Range(buckets.active_plan) \cup Range(buckets.recent) \subseteq Range(all_events)

\* The results of load_for_briefing of both stores for all the branch filters,
\* each with the result of load_all of its store.
AllBuckets ==
  {[buckets |-> FileBuckets(branch), all |-> EventStore_load_all(events_json)] : branch \in TierBranches}
    \cup {[buckets |-> SqlBuckets(branch), all |-> SQLiteEventStore_load_all(events_db)] : branch \in TierBranches}

C16_MarkAccessedCountsOnce ==
  [][last'.op = "mark_accessed" =>
       /\ \A i \in 1..Len(EventStore_load_all(events_json)) :
            LET before == EventStore_load_all(events_json)[i]
                after == EventStore_load_all(events_json')[i]
            IN before.id \in Range(last'.event_ids) =>
                 after.access_count = before.access_count + 1 /\ after.accessed_at >= before.accessed_at
       /\ \A i \in 1..Len(SQLiteEventStore_load_all(events_db)) :
            LET before == SQLiteEventStore_load_all(events_db)[i]
                after == SQLiteEventStore_load_all(events_db')[i]
            IN before.id \in Range(last'.event_ids) =>
                 after.access_count = before.access_count + 1 /\ after.accessed_at >= before.accessed_at]_vars

\* C17: append_many with the list of the call right before it leaves the
\* stored events, hence their count, as they were, on both tiers.
C17_AppendManyTwiceIsOnce ==
  [][last'.op = "append_many_again" =>
       /\ EventStore_load_all(events_json') = EventStore_load_all(events_json)
       /\ SQLiteEventStore_load_all(events_db') = SQLiteEventStore_load_all(events_db)]_vars

\* C17 witness: the second call has run with a list of two events of one
\* hash, one of which the first call stored.
C17_Witness ==
  /\ last.op = "append_many_again"
  /\ Len(last.batch) = 2
  /\ content_hash(last.batch[1]) = content_hash(last.batch[2])
  /\ last.batch[1].id \in StoredIds(EventStore_load_all(events_json))
  /\ last.batch[1].id \in StoredIds(SQLiteEventStore_load_all(events_db))

\* ------------------------------ specification of two hooks at the same time

\* What the extraction of a hook hands to append_many: the two hooks read
\* the same transcript, so they may extract events with the same hash.
ConcurrentInputs ==
  {<<"create_event", "decision_made", "a", "s1", GitBranch>>,
   <<"create_event", "knowledge_acquired", "b", "s1", GitBranch>>}

\* The connection of another process holds the write lock: it has executed
\* an INSERT and has not committed.
Locked(p) == \E q \in Procs \ {p} : invocations[q].pc = "inserted"

\* append_many up to "existing_hashes = self._load_content_hashes(conn)":
\* the connection is opened and the hashes of the committed rows are read.
LoadContentHashes(p) ==
  \E ps \in Batches(ConcurrentInputs, MaxBatch) \ {<<>>} :
    /\ invocations[p].pc = "idle"
    /\ events_db' = get_conn(events_db)
    /\ invocations' = [invocations EXCEPT ![p] = [pc |-> "loaded", events |-> ConstructAll(ps, next_id, now),
                                                  existing_hashes |-> load_content_hashes(events_db)]]
    /\ next_id' = next_id + Len(ps)
    /\ constructed' = constructed \o Record(ps)
    /\ last' = [NoLast EXCEPT !.op = "load_content_hashes", !.tier = 1]
    /\ UNCHANGED <<config, events_json, state_json, backups, archive, transcript, briefing_md, context_md, now, open_file>>

\* append_many from the filter to the last _insert_event: the first INSERT
\* opens the transaction and takes the write lock, for which it waits while
\* another connection holds it; the rows are not visible to the other
\* connections.  Without a new event nothing is executed.
InsertEvents(p) ==
  /\ invocations[p].pc = "loaded"
  /\ ~Locked(p)
  /\ invocations' = [invocations EXCEPT ![p].pc =
                       IF NewEvents(invocations[p].existing_hashes, invocations[p].events) = <<>>
                       THEN "done" ELSE "inserted"]
  /\ last' = [NoLast EXCEPT !.op = "insert_events", !.tier = 1]
  /\ UNCHANGED <<config, events_json, state_json, events_db, backups, archive, transcript, briefing_md, context_md,
                 now, next_id, constructed, open_file>>

\* conn.commit(): the inserted rows enter the database and the lock is
\* released.
Commit(p) ==
  /\ invocations[p].pc = "inserted"
  /\ events_db' = SQLiteEventStore_insert_many(events_db, NewEvents(invocations[p].existing_hashes,
                                                                  invocations[p].events))
  /\ invocations' = [invocations EXCEPT ![p].pc = "done"]
  /\ last' = [NoLast EXCEPT !.op = "commit", !.tier = 1]
  /\ UNCHANGED <<config, events_json, state_json, backups, archive, transcript, briefing_md, context_md,
                 now, next_id, constructed, open_file>>

InitConcurrent ==
  /\ InitHooks
  /\ config.storage_tier = 1

NextConcurrent ==
  \E p \in Procs :
    \/ LoadContentHashes(p)
    \/ InsertEvents(p)
    \/ Commit(p)

SpecConcurrent == InitConcurrent /\ [][NextConcurrent]_vars

\* The database after append_many of process p, then of process q, one
\* after the other.
Serial(p, q) ==
  SQLiteEventStore_append_many(SQLiteEventStore_append_many(NoDb, invocations[p].events), invocations[q].events)

\* C20: when two hooks have run append_many at the same time on the SQL
\* store, the store is the one that the two calls leave in one of the two
\* orders: every hash that was appended is stored, and no two stored events
\* share a hash.
C20_ConcurrentHooksAreSerialised ==
  (\A p \in Procs : invocations[p].pc = "done") =>
    /\ \E p \in Procs, q \in Procs : p # q /\ events_db.events = Serial(p, q).events
    /\ \A p \in Procs : Hashes(invocations[p].events) \subseteq load_content_hashes(events_db)
    /\ NoSharedHash(SQLiteEventStore_load_all(events_db))

\* ------------------------------------ specification of the session briefing

\* Events constructed in one behaviour of the briefing specification.
MaxBriefingEvents == 3

\* Decisions with one line and with two lines, a plan on each of two
\* branches and a completed step.
BriefingInputs ==
  {<<"create_event", "decision_made", "a", "s", "main">>,
   <<"create_event", "approach_rejected", "b\nc", "s", "main">>,
   <<"create_event", "plan_created", "p", "s", "main">>,
   <<"create_event", "plan_created", "r", "s", "other">>,
   <<"create_event", "plan_step_completed", "q", "s", "main">>}

\* Values of max_briefing_tokens, max_full_decisions and
\* max_summary_decisions: the defaults; a budget that holds the first header
\* only; caps that fewer decisions than MaxBriefingEvents reach.
BriefingConfigs ==
  {<<3000, 50, 30>>, <<7, 50, 30>>, <<3000, 1, 1>>, <<3000, 1, 0>>}

InitBriefing ==
  /\ config \in {[DefaultConfig EXCEPT !.max_briefing_tokens = c[1], !.max_full_decisions = c[2],
                                       !.max_summary_decisions = c[3]] : c \in BriefingConfigs}
  /\ events_json = NoFile
  /\ state_json = NoState
  /\ events_db = NoDb
  /\ backups = <<>>
  /\ archive = NoArchive
  /\ transcript = <<>>
  /\ briefing_md = NoText
  /\ context_md = NoText
  /\ now = 0
  /\ next_id = 1
  /\ constructed = <<>>
  /\ last = NoLast
  /\ invocations = NoInvocations
  /\ open_file = NoOpenFile

\* store = EventStore(...); store.append(event), for the briefing.
BriefingAppend ==
  \E p \in BriefingInputs :
    /\ next_id <= MaxBriefingEvents
    /\ events_json' = EventStore_append(events_json, Construct(p, next_id, now))
    /\ next_id' = next_id + 1
    /\ constructed' = constructed \o Record(<<p>>)
    /\ last' = [NoLast EXCEPT !.op = "append"]
    /\ UNCHANGED <<config, state_json, events_db, backups, archive, transcript, briefing_md, context_md, now, invocations, open_file>>

NextBriefing ==
  \/ BriefingAppend
  \/ GenerateBriefing
  \/ Tick

SpecBriefing == InitBriefing /\ [][NextBriefing]_vars

\* The sections that the briefing of the last call was rendered from.
Sections == EventStore_load_for_briefing(events_json, last.branch, now)

\* The budget of the config in characters.
MaxChars == config.max_briefing_tokens * CHARS_PER_TOKEN

\* Whether a starts b, and whether piece occurs in text.
IsPrefix(a, b) == Len(a) <= Len(b) /\ SubSeq(b, 1, Len(a)) = a
Contains(text, piece) ==
  \E i \in 1..(Len(text) - Len(piece) + 1) : SubSeq(text, i, i + Len(piece) - 1) = piece

\* The lines of the first n of the events, one after the other; all in full,
\* or in full up to max_full and as summaries from there on.
RECURSIVE Lines(_, _, _)
Lines(events, n, max_full) ==
  IF n = 0 THEN ""
  ELSE Lines(events, n - 1, max_full) \o format_event_line(events[n], n <= max_full)

\* The immortal events that the caps of the config admit.
Admitted(immortal) == Min(Len(immortal), config.max_full_decisions + config.max_summary_decisions)

\* The whole section of the decisions, empty when no immortal event is
\* admitted.
DecisionsBlock(immortal) ==
  IF Admitted(immortal) = 0 THEN ""
  ELSE "# Decisions & Rejections\n\n" \o Lines(immortal, Admitted(immortal), config.max_full_decisions) \o "\n"

\* Nothing of another section comes before the end of the decisions.
DecisionsFirst == IsPrefix(last.text, DecisionsBlock(Sections.immortal)) \/ IsPrefix(DecisionsBlock(Sections.immortal), last.text)

\* C22, as stated: in every generated briefing every immortal event whose
\* line, after the header and the lines of the immortal events before it,
\* fits in the character budget is present, and the immortal events come
\* before anything else.
C22_EveryFittingImmortalPresent ==
  last.op = "generate_briefing" =>
    /\ \A i \in 1..Len(Sections.immortal) :
         Len("# Decisions & Rejections\n\n" \o Lines(Sections.immortal, i, i)) <= MaxChars =>
           \/ Contains(last.text, format_event_line(Sections.immortal[i], TRUE))
           \/ Contains(last.text, format_event_line(Sections.immortal[i], FALSE))
    /\ DecisionsFirst

\* C22, amended: of the immortal events that the caps admit (the first
\* max_full_decisions in full, the next max_summary_decisions as summaries),
\* every one whose line fits after the header and the lines before it is in
\* the briefing, in that order from the start of the text, and nothing else
\* comes before the end of that section.
C22_AdmittedImmortalFirst ==
  last.op = "generate_briefing" =>
    /\ \A i \in 1..Admitted(Sections.immortal) :
         Len("# Decisions & Rejections\n\n" \o Lines(Sections.immortal, i, config.max_full_decisions)) <= MaxChars =>
           IsPrefix("# Decisions & Rejections\n\n" \o Lines(Sections.immortal, i, config.max_full_decisions), last.text)
    /\ DecisionsFirst

\* C22 witness: a briefing with a decision in full, a decision as a summary
\* that differs from its full line, and the active plan after them.
C22_Witness ==
  /\ last.op = "generate_briefing"
  /\ config.max_full_decisions = 1
  /\ Admitted(Sections.immortal) = 2
  /\ format_event_line(Sections.immortal[2], FALSE) # format_event_line(Sections.immortal[2], TRUE)
  /\ Contains(last.text, "## Active Plan")

\* The headers of the three sections.
SectionHeaders == {"# Decisions & Rejections\n\n", "## Active Plan\n\n", "## Recent Context\n\n"}

\* C23: whatever the store and the character budget, the briefing holds no
\* section header that is not followed by at least one item of its section.
C23_NoEmptyHeaders ==
  last.op = "generate_briefing" =>
    \A header \in SectionHeaders :
      \A i \in 1..(Len(last.text) - Len(header) + 1) :
        SubSeq(last.text, i, i + Len(header) - 1) = header
          => /\ i + Len(header) + 1 <= Len(last.text)
             /\ SubSeq(last.text, i + Len(header), i + Len(header) + 1) = "- "

\* The branch filters of load_for_briefing: none, and each branch.
PlanBranches == {"", "main", "other"}

\* What the claim says of the active plan among the events all_events that
\* match the filter.
IsActivePlan(active_plan, all_events) ==
  LET plans == {e \in Range(all_events) : e.type = "plan_created"}
      steps(plan) == {e \in Range(all_events) : e.type = "plan_step_completed" /\ e.created_at >= plan.created_at}
  IN IF plans = {} THEN active_plan = <<>>
     ELSE /\ active_plan # <<>>
          /\ active_plan[1] \in plans
          /\ \A p \in plans : p.created_at <= active_plan[1].created_at
          /\ Range(Tail(active_plan)) = steps(active_plan[1])
          /\ Len(Tail(active_plan)) = Cardinality(steps(active_plan[1]))
          /\ \A i, j \in 2..Len(active_plan) : i < j => active_plan[i].created_at <= active_plan[j].created_at

\* The SQL store that holds the events of the file store.
SameEventsDb == SQLiteEventStore_insert_many(NoDb, EventStore_load_all(events_json))

\* C24: for every store and every branch filter, on either tier, active_plan
\* is empty when no plan_created event matches the filter; otherwise it is
\* the most recent plan_created event followed by exactly the
\* plan_step_completed events that are not older than that plan, in
\* ascending order of created_at.
C24_ActivePlanIsLatestPlanAndItsSteps ==
  \A branch \in PlanBranches :
    /\ IsActivePlan(EventStore_load_for_briefing(events_json, branch, now).active_plan,
                    branch_filter(EventStore_load_all(events_json), branch))
    /\ IsActivePlan(SQLiteEventStore_load_for_briefing(SameEventsDb, branch, now).active_plan,
                    branch_filter(SQLiteEventStore_load_all(SameEventsDb), branch))

\* C24 witness: the store holds a plan on another branch and a plan with a
\* step that was completed after it; the active plan of the branch is that
\* plan and that step.
C24_Witness ==
  LET all_events == EventStore_load_all(events_json)
      active_plan == EventStore_load_for_briefing(events_json, "main", now).active_plan
  IN /\ Len(active_plan) = 2
     /\ \E e \in Range(all_events) : e.type = "plan_created" /\ e.git_branch = "other"
     /\ active_plan[2].created_at > active_plan[1].created_at

\* ------------------------------ specification of the prompts of the user

\* A prompt of whitespace only.
WhitespacePrompt == [hook_event_name |-> "hook", cwd |-> "/p", prompt |-> " \n"]

\* The runs of handle_user_prompt_submit on the prompts of the user: without
\* a prompt, with a prompt of whitespace, and with a prompt while a step
\* raises or not.
PromptInputs ==
  HookInputs({NoPrompt, WhitespacePrompt, CompletePayload},
             {"identify_project", "load_config", "retrieve_relevant_context", "write_text"})

\* Writes of the host to the transcript between the prompts.
MaxPromptWrites == 1

NextPrompt ==
  \/ GrowTranscript(HookChunks, MaxPromptWrites)
  \/ Stop({<<SessionPayload, "none">>}, MaxHookIds)
  \/ UserPromptSubmit(PromptInputs, Retrievals)
  \/ SaveTier

SpecPrompt == InitHooks /\ [][NextPrompt]_vars

\* The runs in which the retrieval fails: embeddings are unavailable or the
\* search finds nothing, or the retrieval raises.
FailedRetrievals ==
  ({<<CompletePayload, "none">>} \X {"unavailable", "no_results"})
    \cup ({<<CompletePayload, "retrieve_relevant_context">>} \X Retrievals)

\* C26: whenever the retrieval of a UserPromptSubmit run at tier 2 or higher
\* fails (embeddings unavailable, an exception raised, no results), no
\* context file of an earlier prompt is on disk when the handler returns.
C26_FailedRetrievalLeavesNoStaleContext ==
  [][\A <<input, retrieval>> \in FailedRetrievals :
       (config.storage_tier >= 2 /\ UserPromptSubmit({input}, {retrieval})) => ~context_md'.exists]_vars

\* Prompts that are empty or consist of whitespace.
BlankPrompts == {<<NoPrompt, "none">>, <<WhitespacePrompt, "none">>}

\* C27: a UserPromptSubmit run with an empty prompt or with a prompt of
\* whitespace writes no context file and leaves none on disk.
C27_BlankPromptDeletesContext ==
  [][\A input \in BlankPrompts :
       UserPromptSubmit({input}, Retrievals) => ~context_md'.exists]_vars

\* C28: with storage_tier < 2 a UserPromptSubmit run returns 0 and creates,
\* modifies and deletes no file, the context file of an earlier prompt
\* included.
C28_BelowTier2PromptTouchesNoFile ==
  [][(last'.op = "user_prompt_submit" /\ config.storage_tier < 2) =>
       /\ last'.rc = 0
       /\ UNCHANGED <<events_json, state_json, events_db, backups, archive, briefing_md, context_md>>]_vars

\* C28 witness: a prompt was handled below tier 2 while the context file of
\* an earlier prompt is on disk.
C28_Witness ==
  /\ last.op = "user_prompt_submit"
  /\ config.storage_tier < 2
  /\ context_md.exists
  /\ last.rc = 0

\* ------------------------------ specification of the relevant context

\* Results that one retrieval may hold.
MaxResults == 3

\* A string of 151 characters c, one more than a line shows.
Chars151(c) ==
  LET c5 == c \o c \o c \o c \o c
      c25 == c5 \o c5 \o c5 \o c5 \o c5
  IN c25 \o c25 \o c25 \o c25 \o c25 \o c25 \o c

\* event.type.value.replace("_", " ").title()
type_label(type) ==
  CASE type = "decision_made" -> "Decision Made"
    [] type = "knowledge_acquired" -> "Knowledge Acquired"
    [] type = "plan_created" -> "Plan Created"

\* The results of a hybrid search: a decision that the keyword search found,
\* knowledge that both searches found and that has a snippet, a plan of 151
\* characters that neither rank names, and an event with a snippet of 151
\* characters.  A rank of 0 stands for None.
HybridResults ==
  {[event |-> [type |-> "decision_made", content |-> "a"], snippet |-> "", fts_rank |-> 1, vec_rank |-> 0],
   [event |-> [type |-> "knowledge_acquired", content |-> "b"], snippet |-> "<b>b</b>", fts_rank |-> 2, vec_rank |-> 1],
   [event |-> [type |-> "plan_created", content |-> Chars151("p")], snippet |-> "", fts_rank |-> 0, vec_rank |-> 0],
   [event |-> [type |-> "decision_made", content |-> "c"], snippet |-> Chars151("s"), fts_rank |-> 0, vec_rank |-> 3]}

\* The result lists of a retrieval.
ResultLists == UNION {[1..n -> HybridResults] : n \in 0..MaxResults}

\* Caps on the characters: none, below and at the header, the header and the
\* notice, a short line, a short line and the notice, two short lines, and
\* the default.
CharCaps == {0, 68, 69, 99, 105, 135, 141, 2000}

\* The header of the relevant context.
ContextHeader == "# Relevant Context\n\n" \o "_Anticipatory retrieval based on your message:_\n\n"

\* The line of one result.
result_line(result) ==
  LET content == IF result.snippet # "" THEN result.snippet
                 ELSE IF Len(result.event.content) > 150 THEN SubSeq(result.event.content, 1, 150)
                 ELSE result.event.content
      shown == IF Len(content) > 150 THEN SubSeq(content, 1, 147) \o "..." ELSE content
      keyword == IF result.fts_rank # 0 THEN <<"keyword #" \o ToString(result.fts_rank)>> ELSE <<>>
      semantic == IF result.vec_rank # 0 THEN <<"semantic #" \o ToString(result.vec_rank)>> ELSE <<>>
      relevance_parts == keyword \o semantic
      relevance == IF Len(relevance_parts) = 2 THEN " (" \o relevance_parts[1] \o ", " \o relevance_parts[2] \o ")"
                   ELSE IF Len(relevance_parts) = 1 THEN " (" \o relevance_parts[1] \o ")"
                   ELSE ""
  IN "- **" \o type_label(result.event.type) \o "**" \o relevance \o ": " \o shown \o "\n"

\* The notice that n results were left out.
truncation_notice(n) == "\n_(" \o ToString(n) \o " more results truncated)_\n"

\* The loop of format_relevant_context from result i on; text holds the
\* header and the lines of the i - 1 results before it.
RECURSIVE add_results(_, _, _, _)
add_results(results, i, text, max_chars) ==
  IF i > Len(results) THEN text
  ELSE LET line == result_line(results[i])
           truncated == truncation_notice(Len(results) - i + 1)
       IN IF Len(text) + Len(line) > max_chars
          THEN IF Len(text) + Len(truncated) <= max_chars THEN text \o truncated ELSE text
          ELSE add_results(results, i + 1, text \o line, max_chars)

\* The variant of format_relevant_context that formats under the default
\* cap whatever max_chars is.
format_relevant_context_default_cap(results, max_chars) ==
  IF results = <<>> THEN ""
  ELSE add_results(results, 1, ContextHeader, 2000)

\* format_relevant_context(retrieval, max_chars)
format_relevant_context(results, max_chars) ==
  IF results = <<>> THEN ""
  ELSE IF Len(ContextHeader) > max_chars THEN ""
  ELSE add_results(results, 1, ContextHeader, max_chars)

\* A retrieval and a cap are given.
InitFormat ==
  /\ config = [DefaultConfig EXCEPT !.storage_tier = 2]
  /\ events_json = NoFile
  /\ state_json = NoState
  /\ events_db = NoDb
  /\ backups = <<>>
  /\ archive = NoArchive
  /\ transcript = <<>>
  /\ briefing_md = NoText
  /\ context_md = NoText
  /\ now = 0
  /\ next_id = 1
  /\ constructed = <<>>
  /\ \E results \in ResultLists, max_chars \in CharCaps :
       last = [NoLast EXCEPT !.results = results, !.max_chars = max_chars]
  /\ invocations = NoInvocations
  /\ open_file = NoOpenFile

\* format_relevant_context is applied to the retrieval and the cap.
FormatRelevantContext ==
  /\ last.op = "none"
  /\ last' = [last EXCEPT !.op = "format_relevant_context",
                          !.text = format_relevant_context(last.results, last.max_chars)]
  /\ UNCHANGED <<config, events_json, state_json, events_db, backups, archive, transcript, briefing_md, context_md, now, next_id, constructed, invocations, open_file>>

NextFormat == FormatRelevantContext

SpecFormat == InitFormat /\ [][NextFormat]_vars

\* C29: for every result list and every max_chars, the string that
\* format_relevant_context returns has at most max_chars characters.
C29_ContextWithinMaxChars ==
  last.op = "format_relevant_context" => Len(last.text) <= last.max_chars

\* The lines of the first n results, one after the other.
RECURSIVE ResultLines(_, _)
ResultLines(results, n) == IF n = 0 THEN "" ELSE ResultLines(results, n - 1) \o result_line(results[n])

\* The number of results that the text leaves out: those after the longest
\* run of first results whose lines follow the header in the text.
LeftOut(results, text) ==
  LET shown == {n \in 0..Len(results) : IsPrefix(ContextHeader \o ResultLines(results, n), text)}
  IN Len(results) - (IF shown = {} THEN 0 ELSE CHOOSE n \in shown : \A m \in shown : m <= n)

EndsWith(s, suffix) == Len(s) >= Len(suffix) /\ SubSeq(s, Len(s) - Len(suffix) + 1, Len(s)) = suffix

\* C29 witness: the cap left out a result of a text that is not empty.
C29_Witness ==
  /\ last.op = "format_relevant_context"
  /\ last.text # ""
  /\ LeftOut(last.results, last.text) > 0
  /\ Len(last.text) <= last.max_chars

\* C30: whenever the text of format_relevant_context leaves out at least one
\* result, it ends with the notice that names the number of results left
\* out.
C30_LeftOutResultsAreAnnounced ==
  (last.op = "format_relevant_context" /\ LeftOut(last.results, last.text) > 0) =>
    EndsWith(last.text, truncation_notice(LeftOut(last.results, last.text)))

\* Every text with a notice names the number of results it leaves out, and
\* a text that leaves out results lacks the notice only when the notice does
\* not fit under the cap.
NoticeWhenItFits ==
  last.op = "format_relevant_context" =>
    LET n == LeftOut(last.results, last.text)
        shown == ContextHeader \o ResultLines(last.results, Len(last.results) - n)
    IN /\ Contains(last.text, "truncated") => (n > 0 /\ last.text = shown \o truncation_notice(n))
       /\ (n > 0 /\ last.text # "" /\ ~Contains(last.text, "truncated")) =>
            (last.text = shown /\ Len(shown) + Len(truncation_notice(n)) > last.max_chars)

\* ------------------------------ specification of the writes of the files of the host

\* Characters that one write to a file takes.
BufferChars == 16

\* The files written for the host.
HostFiles == {"cortex-briefing.md", "cortex-relevant-context.md"}

\* The file of that name.
HostFile(name) == IF name = "cortex-briefing.md" THEN briefing_md ELSE context_md

\* What the hooks are about to write to the file, and the database after
\* they computed it: the briefing of the store, or the relevant context of
\* a prompt.
NewContent(name) ==
  IF name = "cortex-briefing.md"
  THEN generate_briefing(config, events_json, events_db, GitBranch, TRUE, now)
  ELSE [text |-> "# Relevant Context\n", db |-> get_conn(events_db)]

\* Path.write_text opens the file for writing: the file is created, or cut
\* to no content.
OpenForWrite ==
  \E name \in HostFiles :
    \E r \in {NewContent(name)} :
      /\ open_file.pc # "open"
      /\ name = "cortex-relevant-context.md" => config.storage_tier >= 2
      /\ events_db' = r.db
      /\ open_file' = [pc |-> "open", name |-> name, content |-> r.text, previous |-> HostFile(name)]
      /\ briefing_md' = IF name = "cortex-briefing.md" THEN [exists |-> TRUE, text |-> ""] ELSE briefing_md
      /\ context_md' = IF name = "cortex-relevant-context.md" THEN [exists |-> TRUE, text |-> ""] ELSE context_md
      /\ last' = [NoLast EXCEPT !.op = "open"]
      /\ UNCHANGED <<config, events_json, state_json, backups, archive, transcript, now, next_id, constructed, invocations>>

\* One write of the open file: the next characters of the content, as many
\* as one write takes.
WriteData ==
  LET file == HostFile(open_file.name)
      written == Len(file.text)
      upto == IF Len(open_file.content) < written + BufferChars THEN Len(open_file.content)
              ELSE written + BufferChars
      after == [exists |-> TRUE, text |-> SubSeq(open_file.content, 1, upto)]
  IN /\ open_file.pc = "open"
     /\ written < Len(open_file.content)
     /\ briefing_md' = IF open_file.name = "cortex-briefing.md" THEN after ELSE briefing_md
     /\ context_md' = IF open_file.name = "cortex-relevant-context.md" THEN after ELSE context_md
     /\ last' = [NoLast EXCEPT !.op = "write"]
     /\ UNCHANGED <<config, events_json, state_json, events_db, backups, archive, transcript, now, next_id, constructed, invocations, open_file>>

\* The file is closed after the last write.
CloseFile ==
  /\ open_file.pc = "open"
  /\ HostFile(open_file.name).text = open_file.content
  /\ open_file' = NoOpenFile
  /\ last' = [NoLast EXCEPT !.op = "close"]
  /\ UNCHANGED <<config, events_json, state_json, events_db, backups, archive, transcript, briefing_md, context_md, now, next_id, constructed, invocations>>

\* The process of the hook dies while the file is open.
Crash ==
  /\ open_file.pc = "open"
  /\ open_file' = [open_file EXCEPT !.pc = "crashed"]
  /\ last' = [NoLast EXCEPT !.op = "crash"]
  /\ UNCHANGED <<config, events_json, state_json, events_db, backups, archive, transcript, briefing_md, context_md, now, next_id, constructed, invocations>>

NextWrite ==
  \/ GrowTranscript(HookChunks, MaxPromptWrites)
  \/ Stop({<<SessionPayload, "none">>}, MaxHookIds)
  \/ OpenForWrite
  \/ WriteData
  \/ CloseFile
  \/ Crash

SpecWrite == InitHooks /\ [][NextWrite]_vars

\* C21: a reader of cortex-briefing.md or cortex-relevant-context.md, while
\* the file is being written or after a crash in the middle of the write,
\* sees the complete content of before the write or the complete new
\* content.
C21_HostFilesAppearAtomically ==
  open_file.pc \in {"open", "crashed"} =>
    HostFile(open_file.name) \in {open_file.previous, [exists |-> TRUE, text |-> open_file.content]}

\* A write that ran to its end leaves the complete new content.
ClosedFileIsComplete ==
  [][CloseFile => (IF open_file.name = "cortex-briefing.md" THEN briefing_md' ELSE context_md')
                    = [exists |-> TRUE, text |-> open_file.content]]_vars

\* ------------------------------ the Stop that a Stop hook caused

\* C33: a Stop run whose payload has stop_hook_active true returns 0 and
\* changes neither the event store nor the hook-state nor any other file;
\* what the transcript holds beyond the stored offset stays unread.
C33_StopHookActiveTouchesNothing ==
  [][(last'.op = "stop" /\ last'.stop_hook_active) =>
       /\ last'.rc = 0
       /\ ~last'.raised
       /\ UNCHANGED ProjectFiles
       /\ UNCHANGED <<next_id, constructed>>]_vars

\* C33 witness: a Stop with stop_hook_active was handled while the
\* transcript holds a line that no run has read.
C33_Witness ==
  /\ last.op = "stop"
  /\ last.stop_hook_active
  /\ read_new(Bytes(transcript), from_offset_of(HookState_load(state_json), TranscriptPath)).entries # <<>>

\* ------------------------------ specification of the completed plan steps

\* Todos that one list may hold.
MaxTodos == 2

\* The contents of the todos, in the order of sorted().
TodoContents == <<"A", "B">>

\* The todos of a TodoWrite result.
Todos == [content : Range(TodoContents), status : {"pending", "in_progress", "completed"}]

\* The lists oldTodos and newTodos of the metadata of a tool result.
TodoLists == UNION {[1..n -> Todos] : n \in 0..MaxTodos}

\* {t.get("content", "") for t in todos if t.get("status") == "completed"}
completed_contents(todos) == {todos[i].content : i \in {j \in 1..Len(todos) : todos[j].status = "completed"}}

\* _extract_plan_step_completions for a user entry with one tool result
\* whose metadata holds old_todos and new_todos: what create_event is called
\* with, in the order of the calls.
extract_plan_step_completions(old_todos, new_todos, session_id, git_branch) ==
  IF old_todos = <<>> \/ new_todos = <<>> THEN <<>>
  ELSE LET newly_completed == completed_contents(new_todos) \ completed_contents(old_todos)
           sorted == SelectSeq(TodoContents, LAMBDA c : c \in newly_completed)
       IN [i \in 1..Len(sorted) |-> <<"plan_step_completed", sorted[i], session_id, git_branch>>]

\* A user entry with oldTodos and newTodos is given.
InitTodos ==
  /\ config = DefaultConfig
  /\ events_json = NoFile
  /\ state_json = NoState
  /\ events_db = NoDb
  /\ backups = <<>>
  /\ archive = NoArchive
  /\ transcript = <<>>
  /\ briefing_md = NoText
  /\ context_md = NoText
  /\ now = 0
  /\ next_id = 1
  /\ constructed = <<>>
  /\ \E old_todos \in TodoLists, new_todos \in TodoLists :
       last = [NoLast EXCEPT !.old_todos = old_todos, !.new_todos = new_todos]
  /\ invocations = NoInvocations
  /\ open_file = NoOpenFile

\* _extract_plan_step_completions is applied to the entry.
ExtractPlanStepCompletions ==
  \E events \in {create_all(extract_plan_step_completions(last.old_todos, last.new_todos, "s1", GitBranch),
                            next_id, now)} :
    /\ last.op = "none"
    /\ last' = [last EXCEPT !.op = "extract_plan_step_completions", !.batch = events]
    /\ next_id' = next_id + Len(events)
    /\ constructed' = constructed \o [i \in 1..Len(events) |-> [factory |-> TRUE, immortal |-> events[i].immortal]]
    /\ UNCHANGED <<config, events_json, state_json, events_db, backups, archive, transcript, briefing_md, context_md, now, invocations, open_file>>

NextTodos == ExtractPlanStepCompletions

SpecTodos == InitTodos /\ [][NextTodos]_vars

\* The contents of the todos that are completed in new_todos and pending or
\* in progress in old_todos.
Transitioned(old_todos, new_todos) ==
  {c \in completed_contents(new_todos) :
     \E i \in 1..Len(old_todos) : old_todos[i].content = c /\ old_todos[i].status \in {"pending", "in_progress"}}

\* C32: for a user entry with oldTodos and newTodos, the events emitted are
\* plan_step_completed events, exactly one for each todo that is pending or
\* in progress in oldTodos and completed in newTodos, and none for any
\* other todo.
C32_OneEventPerCompletedStep ==
  last.op = "extract_plan_step_completions" =>
    /\ \A i \in 1..Len(last.batch) : last.batch[i].type = "plan_step_completed"
    /\ \A c \in Range(TodoContents) :
         Cardinality({i \in 1..Len(last.batch) : last.batch[i].content = c})
           = IF c \in Transitioned(last.old_todos, last.new_todos) THEN 1 ELSE 0

\* Lists in which no content occurs twice.
DistinctContents(todos) == \A i, j \in 1..Len(todos) : todos[i].content = todos[j].content => i = j

\* The events are plan_step_completed events, one for each content that is
\* completed in newTodos and not completed in oldTodos, when both lists
\* have todos.
OneEventPerNewlyCompletedContent ==
  last.op = "extract_plan_step_completions" =>
    /\ \A i \in 1..Len(last.batch) : last.batch[i].type = "plan_step_completed"
    /\ \A c \in Range(TodoContents) :
         Cardinality({i \in 1..Len(last.batch) : last.batch[i].content = c})
           = IF /\ last.old_todos # <<>>
                /\ c \in completed_contents(last.new_todos) \ completed_contents(last.old_todos)
             THEN 1 ELSE 0

\* C32 holds for the entries whose todos of newTodos all occur in oldTodos
\* and whose lists hold no content twice.
C32_ForTodosOfOldTodos ==
  (/\ DistinctContents(last.old_todos)
   /\ DistinctContents(last.new_todos)
   /\ \A i \in 1..Len(last.new_todos) :
        \E j \in 1..Len(last.old_todos) : last.old_todos[j].content = last.new_todos[i].content)
    => C32_OneEventPerCompletedStep

\* C32 fails for an entry without a content twice.
C32_WithDistinctContents ==
  (DistinctContents(last.old_todos) /\ DistinctContents(last.new_todos)) => C32_OneEventPerCompletedStep

\* ------------------------------ what append_many takes for a duplicate

\* Two events with the same type, the same content and the same session id.
SameFact(d, e) == d.type = e.type /\ d.content = e.content /\ d.session_id = e.session_id

\* The events of the batch of the step that the store does not hold after
\* the step, each with the events stored before the step and the events
\* earlier in the batch.
Dropped(batch, before, after) ==
  {[event |-> batch[i], earlier |-> Range(before) \cup {batch[j] : j \in 1..(i - 1)}] :
     i \in {k \in 1..Len(batch) : batch[k].id \notin StoredIds(after)}}

\* C40: append_many drops an event only when an event with the same type,
\* the same content and the same session id is stored or occurs earlier in
\* the batch (the hash is the string that SHA-256 is computed of, so no two
\* strings collide).
C40_OnlySameFactsAreDuplicates ==
  [][last'.op = "append_many" =>
       \A d \in Dropped(last'.batch, Stored(last'.tier, events_json, events_db),
                        Stored(last'.tier, events_json', events_db')) :
         \E e \in d.earlier : SameFact(e, d.event)]_vars

\* append_many drops an event only when an event with the same string
\* type:content:session_id is stored or occurs earlier in the batch.
OnlySameHashesAreDuplicates ==
  [][last'.op = "append_many" =>
       \A d \in Dropped(last'.batch, Stored(last'.tier, events_json, events_db),
                        Stored(last'.tier, events_json', events_db')) :
         \E e \in d.earlier : content_hash(e) = content_hash(d.event)]_vars

\* ------------------------------ specification of Stop and PreCompact over one transcript

\* Writes of the host to the transcript, and ids that the runs may use up.
MaxInterleaveWrites == 2
MaxInterleaveIds == 4

\* What the host writes at once: two decisions.
InterleaveChunks == {"Decision: a\n", "Decision: b\n"}

\* The runs of Stop and of PreCompact: to the end, failing in append_many,
\* and failing in state.update after append_many.
InterleaveInputs == HookInputs({CompletePayload}, {"append_many", "state_update"})

InitInterleave ==
  /\ InitHooks
  /\ config.storage_tier \in {0, 1}

NextInterleave ==
  \/ GrowTranscript(InterleaveChunks, MaxInterleaveWrites)
  \/ Stop(InterleaveInputs, MaxInterleaveIds)
  \/ PreCompact(InterleaveInputs, MaxInterleaveIds)

SpecInterleave == InitInterleave /\ [][NextInterleave]_vars

\* Type and content of the events, in their order.
Statements(events) == [i \in 1..Len(events) |-> <<events[i].type, events[i].content>>]

\* The runs have read the transcript to its last complete line.
TranscriptRead ==
  /\ state_json.exists
  /\ state_json.last_transcript_path = TranscriptPath
  /\ state_json.last_transcript_position = read_new(Bytes(transcript), 0).last_offset

\* C34: once the runs of Stop and PreCompact, failed and repeated ones
\* included, have read the transcript to its end, the store holds the
\* events that one Stop over the whole transcript stores: none is missing
\* and none is stored twice.
C34_InterleavedRunsStoreWhatOneStopStores ==
  TranscriptRead =>
    Statements(ActiveEvents) = Statements(OneShot)

\* No event is missing, whatever the runs.
NoFactMissing ==
  TranscriptRead =>
    Range(Statements(OneShot)) \subseteq Range(Statements(ActiveEvents))

\* The store is that of one Stop whenever every stored event has the
\* session id of the Stop payload.
OneSessionStoresWhatOneStopStores ==
  (/\ TranscriptRead
   /\ \A e \in Range(ActiveEvents) :
        e.session_id = CompletePayload["session_id"])
    => Statements(ActiveEvents) = Statements(OneShot)

\* ------------------------------ the events of the store across an upgrade

\* The events of the store that detect_tier reports for the project.
DetectedEvents(cfg, file, db) ==
  LET tier == detect_tier(cfg, file, db).tier
  IN IF tier >= 1 THEN SQLiteEventStore_load_all(db)
     ELSE IF tier = 0 THEN EventStore_load_all(file)
     ELSE <<>>

\* C35: an upgrade with force, from whatever detected tier, leaves the
\* store of the project with at least the events it held before the call.
C35_ForcedUpgradeKeepsEvents ==
  [][(last'.op = "upgrade" /\ last'.force) =>
       Len(DetectedEvents(config, events_json', events_db')) >= Len(DetectedEvents(config, events_json, events_db))]_vars

\* An upgrade with force from detected tier 0 or 1 keeps the events.
ForcedUpgradeBelowTier2KeepsEvents ==
  [][(last'.op = "upgrade" /\ last'.force /\ last'.from_tier \in {0, 1}) =>
       StoredIds(DetectedEvents(config, events_json', events_db'))
         = StoredIds(DetectedEvents(config, events_json, events_db))]_vars

\* An upgrade with force from detected tier 2 keeps the events.
ForcedUpgradeFromTier2KeepsEvents ==
  [][(last'.op = "upgrade" /\ last'.force /\ last'.from_tier = 2) =>
       Len(DetectedEvents(config, events_json', events_db')) >= Len(DetectedEvents(config, events_json, events_db))]_vars

\* ------------------------------ specification of the upgrade that fails

\* The steps of the try block of upgrade at which an exception may leave
\* it: the backup, the load of the events, the migration of the events, the
\* migration of the hook-state, and the archive before its first and before
\* its second move.
UpgradeSteps ==
  {"create_backup", "load_tier0_events", "migrate_events_to_sqlite", "migrate_hook_state_to_sqlite",
   "archive_mkdir", "archive_state_json"}

\* The files that the try block of upgrade leaves behind when the step
\* raises: the backup is made first, the database is created by the first
\* connection (an INSERT that raises is not committed), and the files of
\* tier 0 move last, one after the other.
tier0_to_tier1_raises(file, state, db, bks, arch, force, step) ==
  LET done == tier0_to_tier1(file, state, db, bks, arch, force)
      unlinked == IF force THEN NoDb ELSE db
      started == [events_json |-> file, state_json |-> state, events_db |-> db, backups |-> bks, archive |-> arch]
  IN CASE step = "create_backup" -> started
       [] step = "load_tier0_events" -> [started EXCEPT !.backups = done.backups]
       [] step = "migrate_events_to_sqlite" ->
            [started EXCEPT !.backups = done.backups, !.events_db = get_conn(unlinked)]
       [] step = "migrate_hook_state_to_sqlite" ->
            [started EXCEPT !.backups = done.backups,
                            !.events_db = get_conn(migrate_events_to_sqlite(EventStore_load_all(file), unlinked))]
       [] step = "archive_mkdir" -> [started EXCEPT !.backups = done.backups, !.events_db = done.events_db]
       [] step = "archive_state_json" ->
            [done EXCEPT !.state_json = state, !.archive = [arch EXCEPT !.events_json = file]]

\* cortex upgrade [--force] on a project of detected tier 0, with a step of
\* the try block raising: the exception is caught and a MigrationResult
\* without success is returned.
UpgradeRaises ==
  \E force \in BOOLEAN, step \in UpgradeSteps :
    \E status \in {get_migration_status(config, events_json, state_json, events_db, TRUE)} :
      \E r \in {tier0_to_tier1_raises(events_json, state_json, status.db, backups, archive, force, step)} :
        /\ status.current_tier = 0
        /\ status.can_upgrade \/ force
        /\ step = "migrate_events_to_sqlite" => EventStore_load_all(events_json) # <<>>
        /\ step \in {"migrate_hook_state_to_sqlite", "archive_state_json"} => state_json.exists
        /\ Len(r.backups) <= MaxBackups
        /\ events_json' = r.events_json
        /\ state_json' = r.state_json
        /\ events_db' = r.events_db
        /\ backups' = r.backups
        /\ archive' = r.archive
        /\ last' = [NoLast EXCEPT !.op = "upgrade", !.tier = create_event_store(config), !.from_tier = 0,
                                  !.raised = TRUE, !.success = FALSE, !.to_tier = 1, !.error = step,
                                  !.force = force,
                                  !.before = [events_json |-> events_json, state_json |-> state_json]]
        /\ UNCHANGED <<config, transcript, briefing_md, context_md, now, next_id, constructed, invocations, open_file>>

NextUpgradeFails ==
  \/ GrowTranscript(MigrateChunks, MaxMigrateWrites)
  \/ JsonAppend(MigrateInputs)
  \/ Stop({<<SessionPayload, "none">>}, MaxHookIds)
  \/ Upgrade
  \/ UpgradeRaises
  \/ Rollback

SpecUpgradeFails == InitUndo /\ [][NextUpgradeFails]_vars

\* C36: after an upgrade from tier 0 that failed, at whatever step,
\* events.json and state.json are in the project directory with the content
\* they had, and detect_tier returns 0.
C36_FailedUpgradeLeavesTier0 ==
  [][(last'.op = "upgrade" /\ last'.from_tier = 0 /\ ~last'.success) =>
       /\ events_json' = events_json
       /\ state_json' = state_json
       /\ detect_tier(config, events_json', events_db').tier = 0]_vars

\* After an upgrade from tier 0 that failed before the database was created
\* the project is as C36 says.
FailedBeforeDatabaseLeavesTier0 ==
  [][(last'.op = "upgrade" /\ last'.from_tier = 0 /\ ~last'.success
        /\ last'.error \in {"create_backup", "load_tier0_events"}) =>
       /\ events_json' = events_json
       /\ state_json' = state_json
       /\ detect_tier(config, events_json', events_db').tier = 0]_vars

\* After every failed upgrade from tier 0 the events of events.json are in
\* events.json or in its archive, and the backup holds them unless the
\* backup itself failed.
FailedUpgradeKeepsJsonEvents ==
  [][(last'.op = "upgrade" /\ last'.from_tier = 0 /\ ~last'.success) =>
       /\ events_json' = events_json \/ (archive'.events_json = events_json /\ ~events_json'.exists)
       /\ last'.error # "create_backup" => backups'[Len(backups')].events_json = events_json]_vars

\* ------------------------------ the store of the hooks after an upgrade

\* C37: a Stop that runs while events.db is the detected store of the
\* project (detect_tier reports tier 1 or 2, as after a successful upgrade)
\* writes no event to events.json.
C37_HooksWriteToDetectedStore ==
  [][(last'.op = "stop" /\ detect_tier(config, events_json, events_db).tier >= 1) =>
       events_json' = events_json]_vars

\* A Stop under a config whose storage tier was saved as 1 or 2 leaves
\* events.json alone, and a Stop under a config of tier 0 leaves events.db
\* alone: the hooks follow the config, whatever detect_tier reports.
HooksWriteToConfiguredStore ==
  [][last'.op = "stop" =>
       /\ config.storage_tier >= 1 => events_json' = events_json
       /\ config.storage_tier = 0 => events_db' = events_db]_vars

\* ------------------------------ the hook-state after an upgrade

\* C38: after a successful upgrade from tier 0 to tier 1 the hook-state
\* that the next Stop loads is the hook-state that a Stop would have loaded
\* before the upgrade, and so is the offset from which it reads.
C38_UpgradeKeepsHookState ==
  (last.op = "upgrade" /\ last.from_tier = 0 /\ last.success) =>
    /\ HookState_load(state_json) = HookState_load(last.before.state_json)
    /\ from_offset_of(HookState_load(state_json), TranscriptPath)
         = from_offset_of(HookState_load(last.before.state_json), TranscriptPath)

\* After a successful upgrade from tier 0 to tier 1 state.json is gone, and
\* the hook-state is in the archive and in the hook_state table of the
\* database, where HookState does not look for it.
UpgradeMovesHookState ==
  (last.op = "upgrade" /\ last.from_tier = 0 /\ last.success) =>
    /\ ~state_json.exists
    /\ HookState_load(state_json) = NoState
    /\ last.before.state_json.exists =>
         /\ archive.state_json = last.before.state_json
         /\ events_db.hook_state = HookState_load(last.before.state_json)

\* ------------------------------ specification of the backfill of embeddings

MaxBackfillEvents == 3

\* batch_size of backfill_embeddings, 32 in the code.
BackfillBatchSize == 2

\* The contents of the stored events: text, whitespace only, and empty.
BackfillContents == {"a", " ", ""}

\* The events tables: rows in the order of their created_at.
BackfillRows ==
  UNION {{[i \in 1..n |-> insert_event(create_event(i, "knowledge_acquired", c[i], "s1", GitBranch, i))] :
            c \in [1..n -> BackfillContents]} : n \in 0..MaxBackfillEvents}

\* get_events_without_embeddings: the rows with embedding IS NULL AND
\* content != '', the newest first, at most limit of them.
get_events_without_embeddings(conn, limit) ==
  LET missing == {i \in 1..Len(conn.events) :
                    conn.events[i].id \notin conn.embedded /\ conn.events[i].content # ""}
  IN {conn.events[i] : i \in {i \in missing : Cardinality({j \in missing : j > i}) < limit}}

\* EmbeddingEngine.embed_batch: the results it can return for the rows, TRUE
\* for a vector and FALSE for None.  A text that is empty after strip gets
\* None; when encode raises, every text gets None.
embed_batch(rows) ==
  {[id \in {r.id : r \in rows} |-> FALSE],
   [id \in {r.id : r \in rows} |-> \E r \in rows : r.id = id /\ strip(r.content) # ""]}

InitBackfill ==
  /\ config = DefaultConfig
  /\ events_json = NoFile
  /\ state_json = NoState
  /\ \E rows \in BackfillRows : events_db = [get_conn(NoDb) EXCEPT !.events = rows]
  /\ backups = <<>>
  /\ archive = NoArchive
  /\ transcript = <<>>
  /\ briefing_md = NoText
  /\ context_md = NoText
  /\ now = 0
  /\ next_id = 1
  /\ constructed = <<>>
  /\ last = NoLast
  /\ invocations = NoInvocations
  /\ open_file = NoOpenFile

\* backfill_embeddings up to its loop: it returns 0 when the engine is not
\* available or no row needs an embedding.
BackfillCall ==
  \E available \in BOOLEAN :
    /\ last.op = "none"
    /\ last' = [NoLast EXCEPT !.op = "backfill_embeddings",
                              !.pc = IF available /\ get_events_without_embeddings(events_db, Len(events_db.events)) # {}
                                     THEN "loop" ELSE "returned"]
    /\ UNCHANGED <<config, events_json, state_json, events_db, backups, archive, transcript, briefing_md,
                   context_md, now, next_id, constructed, invocations, open_file>>

\* One pass of the while loop over a batch that is not empty: the rows that
\* got a vector are stored and counted.  passes is the parity of the number
\* of passes made.
BackfillBatch ==
  \E events \in {get_events_without_embeddings(events_db, BackfillBatchSize)} :
    \E embeddings \in embed_batch(events) :
      /\ last.pc = "loop"
      /\ events # {}
      /\ events_db' = [events_db EXCEPT !.embedded = @ \cup {id \in DOMAIN embeddings : embeddings[id]}]
      /\ last' = [last EXCEPT !.generated = @ + Cardinality({id \in DOMAIN embeddings : embeddings[id]}),
                              !.passes = 1 - @]
      /\ UNCHANGED <<config, events_json, state_json, backups, archive, transcript, briefing_md,
                     context_md, now, next_id, constructed, invocations, open_file>>

\* The pass that finds no row without embedding: break and return.
BackfillReturn ==
  /\ last.pc = "loop"
  /\ get_events_without_embeddings(events_db, BackfillBatchSize) = {}
  /\ last' = [last EXCEPT !.pc = "returned"]
  /\ UNCHANGED <<config, events_json, state_json, events_db, backups, archive, transcript, briefing_md,
                 context_md, now, next_id, constructed, invocations, open_file>>

NextBackfill ==
  \/ BackfillCall
  \/ BackfillBatch
  \/ BackfillReturn

SpecBackfill == InitBackfill /\ [][NextBackfill]_vars

\* The thread that called backfill_embeddings keeps running: the next pass
\* of the loop is taken, and so is the return.
SpecBackfillRuns ==
  /\ SpecBackfill
  /\ WF_vars(BackfillCall)
  /\ WF_vars(BackfillBatch)
  /\ WF_vars(BackfillReturn)

\* C39: backfill_embeddings that entered its loop returns, whatever the
\* database holds and whatever embed_batch returns.
C39_BackfillTerminates ==
  (last.pc = "loop") ~> (last.pc = "returned")

\* The rows whose content is not empty and empty after strip.
BlankRows == {i \in 1..Len(events_db.events) :
                events_db.events[i].content # "" /\ strip(events_db.events[i].content) = ""}

\* The same with an encode that does not raise for ever: a pass that stores
\* a vector is taken when it is possible again and again.
SpecBackfillEncodes ==
  /\ SpecBackfillRuns
  /\ SF_vars(BackfillBatch /\ events_db' # events_db)

\* backfill_embeddings returns when no stored content is whitespace only
\* and encode does not raise for ever.
BackfillTerminatesWithoutBlankRows ==
  (last.pc = "loop" /\ BlankRows = {}) ~> (last.pc = "returned")

\* When backfill_embeddings returns from its loop, every row with content
\* has its embedding and the count is the number of vectors stored.
ReturnedBackfillIsComplete ==
  (last.op = "backfill_embeddings" /\ last.pc = "returned" /\ last.generated > 0) =>
    /\ get_events_without_embeddings(events_db, Len(events_db.events)) = {}
    /\ last.generated = Cardinality(events_db.embedded)

\* A database with a row of whitespace content never lets the loop end.
BlankRowKeepsTheLoop ==
  [][(last.pc = "loop" /\ BlankRows # {}) => last'.pc = "loop"]_vars

\* ------------------------------ specification of the fused search

DEFAULT_RRF_K == 60

\* fts_weight and vec_weight of hybrid_search, in tenths: 0.5 each.
DefaultWeight == 5

\* The limits that a caller requests.
Limits == {1, 2, 10, 30, 31, 32}

\* The most events that both searches return.
MaxCommon == 2

\* The ids of the events that only the keyword search returns, that both
\* return, and that only the vector search returns.
KeywordOnlyId(i) == i
CommonId(j) == 1000 + j
VectorOnlyId(i) == 2000 + i

\* The result lists of search and search_similar: the events of one search
\* only first, the common events after them, so that a common event has its
\* worst ranks.
KeywordResults(a, m) == [i \in 1..(a + m) |-> IF i <= a THEN KeywordOnlyId(i) ELSE CommonId(i - a)]
VectorResults(b, m) == [i \in 1..(b + m) |-> IF i <= b THEN VectorOnlyId(i) ELSE CommonId(i - b)]

\* The numbers of events of one search only, for a limit and m common
\* events: none, one, and as many as limit * 2 allows.
OnlyCounts(limit, m) == {0, 1, limit * 2 - m} \cap (0..(limit * 2 - m))

\* fts_map / vec_map: the rank of the id in the list, 0 for None.
rank_of(results, id) ==
  IF \E i \in 1..Len(results) : results[i] = id
  THEN CHOOSE i \in 1..Len(results) : results[i] = id
  ELSE 0

\* _compute_rrf_score with the keyword term left out.
compute_rrf_score_vector_only(fts_rank, vec_rank, k, fts_weight, vec_weight) ==
  IF vec_rank # 0 THEN [num |-> vec_weight, den |-> k + vec_rank] ELSE [num |-> 0, den |-> 1]

\* _compute_rrf_score: the sum of weight / (k + rank) over the searches that
\* returned the event, as the fraction num / den (in tenths).
compute_rrf_score(fts_rank, vec_rank, k, fts_weight, vec_weight) ==
  IF fts_rank # 0 /\ vec_rank # 0
  THEN [num |-> fts_weight * (k + vec_rank) + vec_weight * (k + fts_rank), den |-> (k + fts_rank) * (k + vec_rank)]
  ELSE IF fts_rank # 0 THEN [num |-> fts_weight, den |-> k + fts_rank]
  ELSE IF vec_rank # 0 THEN [num |-> vec_weight, den |-> k + vec_rank]
  ELSE [num |-> 0, den |-> 1]

\* The order of two rrf scores.
ScoreGreater(x, y) == x.num * y.den > y.num * x.den
ScoreEqual(x, y) == x.num * y.den = y.num * x.den

\* HybridResult of an event of the fusion.
HybridResultOf(id, fts_results, vec_results, k, fts_weight, vec_weight) ==
  [id |-> id, fts_rank |-> rank_of(fts_results, id), vec_rank |-> rank_of(vec_results, id),
   rrf_score |-> compute_rrf_score(rank_of(fts_results, id), rank_of(vec_results, id), k, fts_weight, vec_weight)]

\* hybrid_results.sort(key=rrf_score, reverse=True)[:limit]: the sort is
\* stable, and the order before it is the iteration order of a set of
\* strings, here by ascending or by descending id.
sort_and_limit(hybrid_results, ascending, limit) ==
  LET before(x, y) == IF ascending THEN x.id < y.id ELSE x.id > y.id
      position == [x \in hybrid_results |->
                     1 + Cardinality({y \in hybrid_results :
                                        \/ ScoreGreater(y.rrf_score, x.rrf_score)
                                        \/ ScoreEqual(y.rrf_score, x.rrf_score) /\ before(y, x)})]
      n == IF Cardinality(hybrid_results) < limit THEN Cardinality(hybrid_results) ELSE limit
  IN [p \in 1..n |-> CHOOSE x \in hybrid_results : position[x] = p]

\* hybrid_search after search and search_similar returned; every event of
\* the vector list can be loaded.
hybrid_search(fts_results, vec_results, limit, k, fts_weight, vec_weight, ascending) ==
  LET only(results, n) == [p \in 1..n |-> HybridResultOf(results[p], fts_results, vec_results, k, fts_weight, vec_weight)]
      all_event_ids == Range(fts_results) \cup Range(vec_results)
  IN IF vec_results = <<>> /\ fts_results # <<>>
     THEN only(fts_results, IF Len(fts_results) < limit THEN Len(fts_results) ELSE limit)
     ELSE IF fts_results = <<>> /\ vec_results # <<>>
     THEN only(vec_results, IF Len(vec_results) < limit THEN Len(vec_results) ELSE limit)
     ELSE IF fts_results = <<>> /\ vec_results = <<>> THEN <<>>
     ELSE sort_and_limit({HybridResultOf(id, fts_results, vec_results, k, fts_weight, vec_weight) : id \in all_event_ids},
                         ascending, limit)

InitSearch ==
  /\ config = DefaultConfig
  /\ events_json = NoFile
  /\ state_json = NoState
  /\ events_db = NoDb
  /\ backups = <<>>
  /\ archive = NoArchive
  /\ transcript = <<>>
  /\ briefing_md = NoText
  /\ context_md = NoText
  /\ now = 0
  /\ next_id = 1
  /\ constructed = <<>>
  /\ \E limit \in Limits, m \in 0..MaxCommon :
       \E a \in OnlyCounts(limit, m), b \in OnlyCounts(limit, m) :
         last = [NoLast EXCEPT !.fts_results = KeywordResults(a, m), !.vec_results = VectorResults(b, m),
                               !.limit = limit]
  /\ invocations = NoInvocations
  /\ open_file = NoOpenFile

\* hybrid_search(conn, query, query_embedding, limit) with the default k and
\* weights.
HybridSearch ==
  \E ascending \in BOOLEAN :
    /\ last.op = "none"
    /\ last' = [last EXCEPT !.op = "hybrid_search",
                            !.results = hybrid_search(last.fts_results, last.vec_results, last.limit,
                                                      DEFAULT_RRF_K, DefaultWeight, DefaultWeight, ascending)]
    /\ UNCHANGED <<config, events_json, state_json, events_db, backups, archive, transcript, briefing_md,
                   context_md, now, next_id, constructed, invocations, open_file>>

NextSearch == HybridSearch

SpecSearch == InitSearch /\ [][NextSearch]_vars

\* The events that both searches returned.
InBoth == Range(last.fts_results) \cap Range(last.vec_results)

\* Every event of both lists is in the results ahead of the result at
\* position p.
BothAhead(p) ==
  \A id \in InBoth : \E q \in 1..(p - 1) : last.results[q].id = id

\* The results in which every event of both lists is ahead of every event
\* of one list only.
BothRankedFirst ==
  \A p \in 1..Len(last.results) :
    (last.results[p].fts_rank = 0 \/ last.results[p].vec_rank = 0) => BothAhead(p)

\* C31 as the spec states it: after a fused search with the default k and
\* weights, for every limit, every event of both lists is ranked ahead of
\* every event of one list only.
C31_BothListsRankFirst ==
  (last.op = "hybrid_search" /\ InBoth # {}) => BothRankedFirst

\* C31, amended: the same for every limit up to 30, for which the two lists
\* hold at most 60 events each.
C31_BothListsRankFirstUpToLimit30 ==
  (last.op = "hybrid_search" /\ InBoth # {} /\ last.limit <= 30) => BothRankedFirst

\* A fused search with limit 30 whose common event is the last of both
\* lists of 60 and whose results hold events of one list only.
C31_Witness ==
  /\ last.op = "hybrid_search"
  /\ last.limit = 30
  /\ Len(last.fts_results) = 60
  /\ Len(last.vec_results) = 60
  /\ Cardinality(InBoth) = 1
  /\ last.results[1].id = CommonId(1)
  /\ last.results[2].vec_rank = 0 \/ last.results[2].fts_rank = 0

\* The results are in the order of their rrf score, and they are the limit
\* best of the events of the two lists.
ResultsAreSortedByScore ==
  last.op = "hybrid_search" =>
    /\ \A p \in 1..(Len(last.results) - 1) :
         ~ScoreGreater(last.results[p + 1].rrf_score, last.results[p].rrf_score)
    /\ Len(last.results) <= last.limit

====
